---- MODULE Spec2Model ----
(***************************************************************************)
(* ah-fs.processor: reconstruction of fs operations (readFile, writeFile,  *)
(* createReadStream, createWriteStream) from async-hooks activities.       *)
(*                                                                         *)
(* The activity store is a JavaScript Map; it is modelled as the sequence  *)
(* of its values in insertion order.  A JavaScript Set / Map that the code *)
(* iterates is modelled as a sequence without duplicates in insertion      *)
(* order.  `null`/`undefined` ids are NoId, absent timestamp arrays are    *)
(* NoStamp, an absent initStack / args array is the empty sequence (the    *)
(* code always tests `x == null || x.length < k` together).  Any other     *)
(* optional value is a sequence of length 0 (absent) or 1 (present).       *)
(***************************************************************************)
EXTENDS Integers, Sequences, FiniteSets, TLC

VARIABLES activities, config, kind, proc, runs, util, uf, orch

vars == <<activities, config, kind, proc, runs, util, uf, orch>>

-----------------------------------------------------------------------------
(* Values                                                                  *)

NoId == -1
NoStamp == -1
NaN == -999

FSReqWrap == "FSREQWRAP"
TickObject == "TickObject"

\* the elements of a sequence
Range(s) == { s[i] : i \in 1..Len(s) }

Contains(s, x) == \E i \in 1..Len(s) : s[i] = x

\* Set.prototype.add: keeps the first insertion position
SetAdd(s, x) == IF Contains(s, x) THEN s ELSE Append(s, x)

RECURSIVE SetAddAll(_, _)
SetAddAll(s, xs) ==
  IF xs = <<>> THEN s ELSE SetAddAll(SetAdd(s, Head(xs)), Tail(xs))

\* Set.prototype.delete
SetDelete(s, x) == SelectSeq(s, LAMBDA y : y # x)

-----------------------------------------------------------------------------
(* The activity store                                                      *)

Has(acts, id) == \E i \in 1..Len(acts) : acts[i].id = id

Get(acts, id) == acts[CHOOSE i \in 1..Len(acts) : acts[i].id = id]

\* An activity as ah-fs collects it.  Timestamp arrays hold one stamp or are
\* absent (NoStamp); resource.context.fd is -1 when resource, context or fd
\* is missing.
\* resource.functions is optional: <<>> when absent, <<list>> when present.
Activity(id, triggerId, type, initStack, stamps, fd, args, functions) ==
  [ id |-> id, triggerId |-> triggerId, type |-> type, initStack |-> initStack,
    init |-> stamps.init, before |-> stamps.before, after |-> stamps.after,
    destroy |-> stamps.destroy,
    fd |-> fd, args |-> args, functions |-> functions ]

-----------------------------------------------------------------------------
(* JavaScript comparison of timestamp arrays                               *)

RECURSIVE Digits(_)
Digits(n) == IF n < 10 THEN <<n>> ELSE Append(Digits(n \div 10), n % 10)

RECURSIVE StrGt(_, _)
StrGt(a, b) ==
  IF a = <<>> THEN FALSE
  ELSE IF b = <<>> THEN TRUE
  ELSE IF Head(a) # Head(b) THEN Head(a) > Head(b)
  ELSE StrGt(Tail(a), Tail(b))

\* `x > y` on two arrays converts both to strings; an absent array is
\* `undefined`, which compares false with everything.
ArrayGt(x, y) ==
  IF x = NoStamp \/ y = NoStamp THEN FALSE ELSE StrGt(Digits(x), Digits(y))

\* `x - y` on two one-element arrays is the numeric difference
ArrayMinus(x, y) == IF x = NoStamp \/ y = NoStamp THEN NaN ELSE x - y

NumLt(x, y) == x # NaN /\ y # NaN /\ x < y

-----------------------------------------------------------------------------
(* lib/utils.js                                                            *)

RECURSIVE idsTriggeredByFrom(_, _, _, _)
idsTriggeredByFrom(acts, i, ids, stop) ==
  IF i > Len(acts) THEN ids
  ELSE LET a == acts[i]
           ids2 == IF Contains(ids, a.triggerId) THEN SetAdd(ids, a.id) ELSE ids
       IN IF a.id \in stop THEN ids2
          ELSE idsTriggeredByFrom(acts, i + 1, ids2, stop)

\* stop is the set of ids for which the stop predicate is true
\* a walk that no activity stops
idsTriggeredByAll(acts, id, stop) == idsTriggeredByFrom(acts, 1, <<id>>, {})

idsTriggeredBy(acts, id, stop) == idsTriggeredByFrom(acts, 1, <<id>>, stop)

RECURSIVE oldestIdFrom(_, _, _)
oldestIdFrom(acts, ids, oldest) ==
  IF ids = <<>> THEN oldest.id
  ELSE LET id == Head(ids)
       IN IF ~Has(acts, id) THEN oldestIdFrom(acts, Tail(ids), oldest)
          ELSE LET init == Get(acts, id).init
               IN IF oldest.id = NoId \/ ArrayGt(oldest.init, init)
                  THEN oldestIdFrom(acts, Tail(ids), [id |-> id, init |-> init])
                  ELSE oldestIdFrom(acts, Tail(ids), oldest)

oldestId(acts, ids) == oldestIdFrom(acts, ids, [id |-> NoId, init |-> NoStamp])

\* the update test of the loop of immediatelyBeforeId
MoreImmediate(delta, mostImmediate) ==
  mostImmediate.id = NoId \/ NumLt(delta, mostImmediate.delta)

RECURSIVE immediatelyBeforeIdFrom(_, _, _, _)
immediatelyBeforeIdFrom(acts, ids, baseInit, mostImmediate) ==
  IF ids = <<>> THEN mostImmediate.id
  ELSE LET id == Head(ids)
       IN IF ~Has(acts, id)
          THEN immediatelyBeforeIdFrom(acts, Tail(ids), baseInit, mostImmediate)
          ELSE LET init == Get(acts, id).init
                   delta == ArrayMinus(init, baseInit)
               IN IF ArrayGt(init, baseInit)
                  THEN immediatelyBeforeIdFrom(acts, Tail(ids), baseInit, mostImmediate)
                  ELSE IF MoreImmediate(delta, mostImmediate)
                  THEN immediatelyBeforeIdFrom(acts, Tail(ids), baseInit,
                         [id |-> id, init |-> init, delta |-> delta])
                  ELSE immediatelyBeforeIdFrom(acts, Tail(ids), baseInit, mostImmediate)

\* a check that rejects every call
immediatelyBeforeIdThrowsAlways(acts, id) == TRUE

\* the precondition check: throws when the reference id is not in the store
immediatelyBeforeIdThrows(acts, id) == ~Has(acts, id)

immediatelyBeforeId(acts, ids, id) ==
  immediatelyBeforeIdFrom(acts, ids, Get(acts, id).init,
                          [id |-> NoId, init |-> NoStamp, delta |-> NaN])

\* { ms, ns }: only the nanoseconds are modelled, the rendering is pretty-ms
prettyNs(ns) == ns

safeFirstStamp(x) == IF x = NoStamp THEN prettyNs(0) ELSE prettyNs(x)

-----------------------------------------------------------------------------
(* lib/utils.js: user functions                                            *)

Undefined == "undefined"

\* a function found on a resource: { path, info: { file, line, column, name,
\* inferredName }, arguments }
Fn(path, file, line, column, name, inferredName, arguments) ==
  [ path |-> path, file |-> file, line |-> line, column |-> column,
    name |-> name, inferredName |-> inferredName, arguments |-> arguments ]

UserFiles == { "/app.js" }

\* fn.info.file.startsWith('/')
isUserFunction(fn) == fn.file \in UserFiles

\* x == null || x.length === 0
IsBlank(x) == x = Undefined \/ x = ""

functionName(info) ==
  IF ~IsBlank(info.name) THEN info.name
  ELSE IF ~IsBlank(info.inferredName) THEN info.name
  ELSE "<Unknown>"

\* `${p}.${prop}` / `${p}[${prop}]` for every property of the path
stringifyPath(path, pathPrefix) == <<pathPrefix>> \o path

\* `${name} (${info.file}:${info.line}:${info.column})`
LocationString(name, info) == <<name, info.file, info.line, info.column>>

\* Map.prototype.set on a sequence of descriptors keyed by location
MapSet(m, d) ==
  IF \E i \in 1..Len(m) : m[i].location = d.location
  THEN [ i \in 1..Len(m) |-> IF m[i].location = d.location THEN d ELSE m[i] ]
  ELSE Append(m, d)

\* Object.assign({}, info, { location, propertyPath, args })
Descriptor(fn, pathPrefix) ==
  [ file |-> fn.file, line |-> fn.line, column |-> fn.column,
    name |-> fn.name, inferredName |-> fn.inferredName,
    location |-> LocationString(functionName(fn), fn),
    propertyPath |-> << stringifyPath(fn.path, pathPrefix) >>,
    propertyPaths |-> <<>>,
    args |-> fn.arguments ]

RECURSIVE uniqueUserFunctionsFrom(_, _, _)
uniqueUserFunctionsFrom(fns, pathPrefix, userFunctions) ==
  IF fns = <<>> THEN userFunctions
  ELSE LET fn == Head(fns)
       IN IF ~isUserFunction(fn)
          THEN uniqueUserFunctionsFrom(Tail(fns), pathPrefix, userFunctions)
          ELSE uniqueUserFunctionsFrom(Tail(fns), pathPrefix,
                 MapSet(userFunctions, Descriptor(fn, pathPrefix)))

\* What `if (fns == null) return userFunctions` returns: the empty Map
\* itself, not an array.
EmptyMap == [ isMap |-> TRUE, list |-> <<>> ]

\* functions is the optional resource.functions
uniqueUserFunctions(functions, pathPrefix) ==
  IF functions = <<>> THEN EmptyMap
  ELSE [ isMap |-> FALSE,
         list |-> uniqueUserFunctionsFrom(functions[1], pathPrefix, <<>>) ]

\* An empty Map that became an element of a userFunctions array: an object
\* with none of the descriptor's properties.
MapAsDescriptor ==
  [ file |-> Undefined, line |-> 0, column |-> 0, name |-> Undefined,
    inferredName |-> Undefined, location |-> <<Undefined>>,
    propertyPath |-> <<>>, propertyPaths |-> <<>>, args |-> Undefined ]

\* acc.concat(fn): an array is spread, a Map is appended as one element
Concat(acc, userFunctions) ==
  IF userFunctions.isMap THEN Append(acc, MapAsDescriptor)
  ELSE acc \o userFunctions.list

\* The value a role key holds in the info object: undefined (<<>>) or the
\* role's sub-record.
RoleNames == { "open", "stat", "read", "write", "stream", "close" }

NoRoles == [ k \in RoleNames |-> <<>> ]

RECURSIVE CollectUserFunctions(_, _, _)
CollectUserFunctions(info, keys, acc) ==
  IF keys = <<>> THEN acc
  ELSE LET val == info.role[Head(keys)][1]
       IN CollectUserFunctions(info, Tail(keys),
            IF val.userFunctions = <<>> THEN acc
            ELSE Concat(acc, val.userFunctions[1]))

\* info[k].userFunctions is read for every key of info: a key whose value is
\* undefined makes the property access throw.
separateUserFunctionsThrows(info) ==
  info.createdAt = <<>> \/ \E i \in 1..Len(info.keys) : info.role[info.keys[i]] = <<>>

separateUserFunctions(info) ==
  [ info EXCEPT
      !.role = [ k \in RoleNames |->
                   IF info.role[k] = <<>> THEN <<>>
                   ELSE << [ info.role[k][1] EXCEPT !.userFunctions = <<>> ] >> ],
      !.userFunctions = << CollectUserFunctions(info, info.keys, <<>>) >> ]

merge(fn1, fn2) ==
  [ fn1 EXCEPT
      !.propertyPaths = << Append(fn1.propertyPaths[1], fn2.propertyPath) >>,
      !.args = IF fn1.args = Undefined /\ fn2.args # Undefined
               THEN fn2.args ELSE fn1.args,
      !.name = IF IsBlank(fn1.name) /\ ~IsBlank(fn2.name)
               THEN fn2.name ELSE fn1.name,
      !.inferredName = IF IsBlank(fn1.inferredName) /\ ~IsBlank(fn2.inferredName)
                       THEN fn2.inferredName ELSE fn1.inferredName ]

\* a first occurrence: propertyPaths: [ fn.propertyPath ], propertyPath omitted
AddPaths(fn) ==
  [ fn EXCEPT !.propertyPaths = << <<fn.propertyPath>> >>, !.propertyPath = <<>> ]

RECURSIVE mergeList(_, _)
mergeList(userFunctions, fns) ==
  IF userFunctions = <<>> THEN fns
  ELSE LET fn == Head(userFunctions)
           id == fn.location
       IN IF \E i \in 1..Len(fns) : fns[i].location = id
          THEN mergeList(Tail(userFunctions),
                 [ i \in 1..Len(fns) |->
                     IF fns[i].location = id THEN merge(fns[i], fn) ELSE fns[i] ])
          ELSE mergeList(Tail(userFunctions), Append(fns, AddPaths(fn)))

mergeUserFunctions(info) ==
  [ info EXCEPT !.userFunctions = << mergeList(info.userFunctions[1], <<>>) >> ]

-----------------------------------------------------------------------------
(* Operations: the private fields of an operation object while its group   *)
(* is processed, and the info object its summary returns.                  *)

\* the fields before _process ran; threw records an exception
NewOperation ==
  [ created |-> <<>>, destroyed |-> <<>>, createdAt |-> <<>>,
    role |-> NoRoles, many |-> <<>>, processedTick |-> FALSE, threw |-> FALSE ]

\* a sub-record that always carries its activity
RoleRecordWithActivity(activity, userFunctions, timeSpent, includeActivities) ==
  [ id |-> activity.id, triggerId |-> activity.triggerId,
    userFunctions |-> userFunctions, timeSpent |-> timeSpent,
    activity |-> <<activity>> ]

\* { id, triggerId [, userFunctions] [, timeSpent] [, activity] }
RoleRecord(activity, userFunctions, timeSpent, includeActivities) ==
  [ id |-> activity.id, triggerId |-> activity.triggerId,
    userFunctions |-> userFunctions, timeSpent |-> timeSpent,
    activity |-> IF includeActivities THEN <<activity>> ELSE <<>> ]

\* one entry of the array _resolveGroup builds
GroupInfo(acts, id, sets) ==
  [ activity |-> IF Has(acts, id) THEN << Get(acts, id) >> ELSE <<>>,
    isopen |-> Contains(sets.openIds, id),
    isstat |-> Contains(sets.statIds, id),
    isread |-> Contains(sets.readIds, id),
    iswrite |-> Contains(sets.writeIds, id),
    istick |-> Contains(sets.tickIds, id),
    isclose |-> Contains(sets.closeIds, id) ]

resolveGroup(acts, group, sets) ==
  [ i \in 1..Len(group) |-> GroupInfo(acts, group[i], sets) ]

\* the object literal every summary starts from; reading `.ns` of an
\* undefined _created or _destroyed throws
summaryThrows(op) == op.created = <<>> \/ op.destroyed = <<>>

\* the difference taken the wrong way round
TimeAliveSwapped(destroyed, created) == created - destroyed

TimeAlive(destroyed, created) == destroyed - created

LifeCycle(op) ==
  [ created |-> op.created[1], destroyed |-> op.destroyed[1],
    timeAlive |-> prettyNs(TimeAlive(op.destroyed[1], op.created[1])) ]

SummaryInfo(op, keys) ==
  [ lifeCycle |-> LifeCycle(op), createdAt |-> op.createdAt, keys |-> keys,
    role |-> op.role, many |-> op.many, userFunctions |-> <<>> ]

\* what process() got from summary: an exception or the info object
Thrown == [ threw |-> TRUE ]

Returned(info) == [ threw |-> FALSE, info |-> info ]

\* a summary that merges whenever it separates
summaryAlwaysMerged(op, keys, separateFunctions, mergeFunctions) ==
  IF op.threw \/ summaryThrows(op) THEN Thrown
  ELSE LET info == SummaryInfo(op, keys)
       IN IF ~separateFunctions THEN Returned(info)
          ELSE IF separateUserFunctionsThrows(info) THEN Thrown
          ELSE Returned(mergeUserFunctions(separateUserFunctions(info)))

\* summary({ separateFunctions, mergeFunctions }) of the operations that
\* carry user functions
summaryWithFunctions(op, keys, separateFunctions, mergeFunctions) ==
  IF op.threw \/ summaryThrows(op) THEN Thrown
  ELSE LET info == SummaryInfo(op, keys)
       IN IF ~separateFunctions THEN Returned(info)
          ELSE IF separateUserFunctionsThrows(info) THEN Thrown
          ELSE IF ~mergeFunctions THEN Returned(separateUserFunctions(info))
          ELSE Returned(mergeUserFunctions(separateUserFunctions(info)))

-----------------------------------------------------------------------------
(* lib/read-file.operation.js                                              *)

RF_Keys == << "open", "stat", "read", "close" >>

RF_userFunctions(activity, resourceType) ==
  << uniqueUserFunctions(activity.functions, resourceType \o ".resource") >>

RF_processOpen(op, info, includeActivities) ==
  LET activity == info.activity[1]
      op1 == [ op EXCEPT !.created = << safeFirstStamp(activity.init) >> ]
  IN IF Len(activity.initStack) < 2 THEN op1
     ELSE [ op1 EXCEPT
              !.createdAt = << activity.initStack[2] >>,
              !.role["open"] = << RoleRecord(activity,
                   RF_userFunctions(activity, "open"), <<>>, includeActivities) >> ]

RF_processStat(op, info, includeActivities) ==
  IF info.activity = <<>> THEN op
  ELSE [ op EXCEPT !.role["stat"] = << RoleRecord(info.activity[1],
           RF_userFunctions(info.activity[1], "stat"), <<>>, includeActivities) >> ]

RF_processRead(op, info, includeActivities) ==
  IF info.activity = <<>> THEN op
  ELSE [ op EXCEPT !.role["read"] = << RoleRecord(info.activity[1],
           RF_userFunctions(info.activity[1], "read"), <<>>, includeActivities) >> ]

RF_processClose(op, info, includeActivities) ==
  IF info.activity = <<>> THEN op
  ELSE [ op EXCEPT
           !.destroyed = << safeFirstStamp(info.activity[1].destroy) >>,
           !.role["close"] = << RoleRecord(info.activity[1],
               RF_userFunctions(info.activity[1], "close"), <<>>, includeActivities) >> ]

RECURSIVE RF_process(_, _, _)
RF_process(op, group, includeActivities) ==
  IF group = <<>> THEN op
  ELSE LET info == Head(group)
           op1 == IF info.isopen THEN RF_processOpen(op, info, includeActivities)
                  ELSE IF info.isstat THEN RF_processStat(op, info, includeActivities)
                  ELSE IF info.isread THEN RF_processRead(op, info, includeActivities)
                  ELSE IF info.isclose THEN RF_processClose(op, info, includeActivities)
                  ELSE op
       IN RF_process(op1, Tail(group), includeActivities)

RF_summary(op, separateFunctions) ==
  summaryWithFunctions(op, RF_Keys, separateFunctions, TRUE)

-----------------------------------------------------------------------------
(* Processor instances.  One record holds the fields of any of the four    *)
(* processors; a processor uses the classification sets of its own roles.  *)
(* groups and operations are Maps: sequences of [key, val] entries.        *)

\* _clear(): every classification set, the groups and the operations
clear(p) ==
  [ p EXCEPT !.openIds = <<>>, !.statIds = <<>>, !.readIds = <<>>,
             !.writeIds = <<>>, !.tickIds = <<>>, !.closeIds = <<>>,
             !.groups = <<>>, !.operations = <<>> ]

\* what a constructor leaves behind; remainingOpenIds, remainingWriteIds and
\* closeQueue are the locals of the write stream's _separateIntoGroups, pc is
\* the position of a process() call and calls counts the calls on the instance
NewProcessor ==
  [ pc |-> "idle",
    calls |-> 0,
    openIds |-> <<>>, statIds |-> <<>>, readIds |-> <<>>, writeIds |-> <<>>,
    tickIds |-> <<>>, closeIds |-> <<>>, groups |-> <<>>, operations |-> <<>>,
    remainingOpenIds |-> <<>>, remainingWriteIds |-> <<>>, closeQueue |-> <<>> ]

MapHas(m, k) == \E i \in 1..Len(m) : m[i].key = k

MapGet(m, k) == m[CHOOSE i \in 1..Len(m) : m[i].key = k].val

MapKeys(m) == [ i \in 1..Len(m) |-> m[i].key ]

\* Map.prototype.set: a new key is appended, an existing key keeps its place
MapPut(m, k, v) ==
  IF MapHas(m, k)
  THEN [ i \in 1..Len(m) |-> IF m[i].key = k THEN [ key |-> k, val |-> v ] ELSE m[i] ]
  ELSE Append(m, [ key |-> k, val |-> v ])

\* rx.test(frame): the frames of the model that the regular expression matches
test(rx, frame) == frame \in rx

\* the ids of the activities that satisfy a classifier, in store order
FindIds(acts, Classifier(_)) ==
  LET sel == SelectSeq(acts, Classifier)
  IN [ i \in 1..Len(sel) |-> sel[i].id ]

\* _addOperations: summaries[i] is the summary of the i-th group; they are
\* added in group order until one throws
\* _addOperations that stops after the first group
addOperationsFirstOnly(p, groups, summaries) ==
  IF groups = <<>> THEN [ threw |-> FALSE, proc |-> p ]
  ELSE IF Head(summaries).threw THEN [ threw |-> TRUE, proc |-> p ]
  ELSE [ threw |-> FALSE,
         proc |-> [ p EXCEPT !.operations =
                      MapPut(@, Head(groups).key, Head(summaries).info) ] ]

RECURSIVE addOperationsFrom(_, _, _)
addOperationsFrom(p, groups, summaries) ==
  IF groups = <<>> THEN [ threw |-> FALSE, proc |-> p ]
  ELSE IF Head(summaries).threw THEN [ threw |-> TRUE, proc |-> p ]
  ELSE addOperationsFrom(
         [ p EXCEPT !.operations = MapPut(@, Head(groups).key, Head(summaries).info) ],
         Tail(groups), Tail(summaries))

\* what process() hands to its caller
Result(threw, p) ==
  IF threw THEN [ threw |-> TRUE, groups |-> <<>>, operations |-> <<>> ]
  ELSE [ threw |-> FALSE, groups |-> p.groups, operations |-> p.operations ]

-----------------------------------------------------------------------------
(* lib/read-file.processor.js                                              *)

RF_openInitFrame0Rx == { "at Object.fs.readFile" }
RF_statInitFrame0Rx == { "at FSReqWrap.readFileAfterOpen" }
RF_readInitFrame1Rx == { "at FSReqWrap.readFileAfterStat" }
RF_closeInitFrame0Rx == { "at ReadFileContext.close" }

queryFd(activity) == activity.fd

\* a test that accepts every activity
testInitStackAny(rx, activity) == TRUE

testInitStack(rx, activity) ==
  \E i \in 1..Len(activity.initStack) : test(rx, activity.initStack[i])

RECURSIVE groupByFdFrom(_, _)
groupByFdFrom(acts, map) ==
  IF acts = <<>> THEN map
  ELSE LET v == Head(acts)
           fd == queryFd(v)
           set == IF MapHas(map, fd) THEN MapGet(map, fd) ELSE <<>>
       IN groupByFdFrom(Tail(acts), MapPut(map, fd, SetAdd(set, v.id)))

RF_groupByFd(acts) == groupByFdFrom(acts, <<>>)

\* the number of members a candidate group must have
RF_GroupSize == 4

RF_filterPotentialFsReadGroups(groups) ==
  SelectSeq(groups, LAMBDA e : ~(e.key < 0) /\ Len(e.val) = RF_GroupSize)

\* a1.init[0] throws when an activity has no init array
RF_idsByInitTimeThrows(acts, ids) ==
  \E i \in 1..Len(ids) : Get(acts, ids[i]).init = NoStamp

\* Array.prototype.sort with _idsByInitTime: ascending by first init stamp,
\* equal stamps keep their order
RECURSIVE RF_sortedArray(_, _)
RF_sortedArray(acts, ids) ==
  IF ids = <<>> THEN <<>>
  ELSE LET i == CHOOSE i \in 1..Len(ids) :
                  \A j \in 1..Len(ids) :
                     \/ Get(acts, ids[i]).init < Get(acts, ids[j]).init
                     \/ Get(acts, ids[i]).init = Get(acts, ids[j]).init /\ i <= j
       IN <<ids[i]>> \o RF_sortedArray(acts,
            [ j \in 1..(Len(ids) - 1) |-> IF j < i THEN ids[j] ELSE ids[j + 1] ])

RF_sortIdsByInitTimeThrows(acts, groups) ==
  \E i \in 1..Len(groups) : RF_idsByInitTimeThrows(acts, groups[i].val)

RF_sortIdsByInitTime(acts, groups) ==
  [ i \in 1..Len(groups) |->
      [ key |-> groups[i].key, val |-> RF_sortedArray(acts, groups[i].val) ] ]

\* One pass over the sorted groups.  The ids that passed their test are added
\* to the classification sets even when a later member rejects the group.
RECURSIVE RF_filterDefiniteFrom(_, _, _, _)
RF_filterDefiniteFrom(p, acts, sortedGroups, verified) ==
  IF sortedGroups = <<>> THEN [ p EXCEPT !.groups = verified ]
  ELSE LET v == Head(sortedGroups).val
           isOpen == testInitStack(RF_openInitFrame0Rx, Get(acts, v[1]))
           isStat == testInitStack(RF_statInitFrame0Rx, Get(acts, v[2]))
           isRead == testInitStack(RF_readInitFrame1Rx, Get(acts, v[3]))
           isClose == testInitStack(RF_closeInitFrame0Rx, Get(acts, v[4]))
           p1 == IF isOpen THEN [ p EXCEPT !.openIds = SetAdd(@, v[1]) ] ELSE p
           p2 == IF isOpen /\ isStat
                 THEN [ p1 EXCEPT !.statIds = SetAdd(@, v[2]) ] ELSE p1
           p3 == IF isOpen /\ isStat /\ isRead
                 THEN [ p2 EXCEPT !.readIds = SetAdd(@, v[3]) ] ELSE p2
           p4 == IF isOpen /\ isStat /\ isRead /\ isClose
                 THEN [ p3 EXCEPT !.closeIds = SetAdd(@, v[4]) ] ELSE p3
       IN RF_filterDefiniteFrom(p4, acts, Tail(sortedGroups),
            IF isOpen /\ isStat /\ isRead /\ isClose
            THEN MapPut(verified, Head(sortedGroups).key, v) ELSE verified)

RF_filterDefiniteFsReadGroups(p, acts, sortedGroups) ==
  RF_filterDefiniteFrom(p, acts, sortedGroups, <<>>)

RF_addOperation(p, acts, cfg, group) ==
  RF_summary(RF_process(NewOperation, resolveGroup(acts, group, p),
                        cfg.includeActivities),
             cfg.separateFunctions)

RF_addOperations(p, acts, cfg) ==
  addOperationsFrom(p, p.groups,
    [ i \in 1..Len(p.groups) |-> RF_addOperation(p, acts, cfg, p.groups[i].val) ])

\* process(): the instance after the call and whether the call threw
RF_processCall(p, acts, cfg) ==
  LET potentialFsReads == RF_filterPotentialFsReadGroups(RF_groupByFd(acts))
      p0 == clear(p)
  IN IF RF_sortIdsByInitTimeThrows(acts, potentialFsReads)
     THEN [ threw |-> TRUE, proc |-> p0 ]
     ELSE RF_addOperations(
            RF_filterDefiniteFsReadGroups(p0, acts,
              RF_sortIdsByInitTime(acts, potentialFsReads)),
            acts, cfg)

-----------------------------------------------------------------------------
(* lib/write-file.operation.js and lib/write-file.processor.js             *)

WriteFile_openInitFrame0Rx == { "at Object.fs.open" }
WriteFile_openInitFrame1Rx == { "at Object.fs.writeFile" }
\* /at Object\.fs\.write/ also matches the frame of fs.writeFile
WriteFile_writeInitFrame0Rx == { "at Object.fs.write", "at Object.fs.writeFile" }
WriteFile_closeInitFrame0Rx == { "at Object.fs.close" }

WriteFile_Keys == << "open", "write", "close" >>

WriteFile_processOpen(op, info, includeActivities) ==
  LET activity == info.activity[1]
      op1 == [ op EXCEPT !.created = << safeFirstStamp(activity.init) >> ]
  IN IF Len(activity.initStack) < 3 THEN op1
     ELSE [ op1 EXCEPT
              !.createdAt = << activity.initStack[3] >>,
              !.role["open"] =
                 << RoleRecord(activity, <<>>, <<>>, includeActivities) >> ]

WriteFile_processWrite(op, info, includeActivities) ==
  IF info.activity = <<>> THEN op
  ELSE [ op EXCEPT !.role["write"] =
           << RoleRecord(info.activity[1], <<>>, <<>>, includeActivities) >> ]

WriteFile_processClose(op, info, includeActivities) ==
  IF info.activity = <<>> THEN op
  ELSE [ op EXCEPT
           !.destroyed = << safeFirstStamp(info.activity[1].destroy) >>,
           !.role["close"] =
              << RoleRecord(info.activity[1], <<>>, <<>>, includeActivities) >> ]

RECURSIVE WriteFile_process(_, _, _)
WriteFile_process(op, group, includeActivities) ==
  IF group = <<>> THEN op
  ELSE LET info == Head(group)
           op1 == IF info.isopen THEN WriteFile_processOpen(op, info, includeActivities)
                  ELSE IF info.iswrite THEN WriteFile_processWrite(op, info, includeActivities)
                  ELSE IF info.isclose THEN WriteFile_processClose(op, info, includeActivities)
                  ELSE op
       IN WriteFile_process(op1, Tail(group), includeActivities)

WriteFile_summary(op) ==
  IF summaryThrows(op) THEN Thrown ELSE Returned(SummaryInfo(op, WriteFile_Keys))

WriteFile_isOpen(a) ==
  /\ a.type = FSReqWrap
  /\ Len(a.initStack) >= 2
  /\ test(WriteFile_openInitFrame0Rx, a.initStack[1])
  /\ test(WriteFile_openInitFrame1Rx, a.initStack[2])

WriteFile_isWrite(a) ==
  /\ a.type = FSReqWrap
  /\ Len(a.initStack) >= 1
  /\ test(WriteFile_writeInitFrame0Rx, a.initStack[1])

WriteFile_isClose(a) ==
  /\ a.type = FSReqWrap
  /\ Len(a.initStack) >= 1
  /\ test(WriteFile_closeInitFrame0Rx, a.initStack[1])

WriteFile_findIds(p, acts) ==
  [ p EXCEPT !.openIds = SetAddAll(@, FindIds(acts, WriteFile_isOpen)),
             !.writeIds = SetAddAll(@, FindIds(acts, WriteFile_isWrite)),
             !.closeIds = SetAddAll(@, FindIds(acts, WriteFile_isClose)) ]

\* _separateIntoGroups of the write file and of the read stream processor:
\* one walk of the trigger chain per open, stopped at the first close
RECURSIVE separateByTrigger(_, _, _)
separateByTrigger(p, acts, openIds) ==
  IF openIds = <<>> THEN p
  ELSE separateByTrigger(
         [ p EXCEPT !.groups =
             MapPut(@, Head(openIds),
                    idsTriggeredBy(acts, Head(openIds), Range(p.closeIds))) ],
         acts, Tail(openIds))

WriteFile_separateIntoGroups(p, acts) == separateByTrigger(p, acts, p.openIds)

WriteFile_addOperation(p, acts, cfg, group) ==
  WriteFile_summary(WriteFile_process(NewOperation, resolveGroup(acts, group, p),
                        cfg.includeActivities))

WriteFile_addOperations(p, acts, cfg) ==
  addOperationsFrom(p, p.groups,
    [ i \in 1..Len(p.groups) |-> WriteFile_addOperation(p, acts, cfg, p.groups[i].val) ])

WriteFile_processCall(p, acts, cfg) ==
  WriteFile_addOperations(WriteFile_separateIntoGroups(WriteFile_findIds(clear(p), acts), acts), acts, cfg)

-----------------------------------------------------------------------------
(* lib/read-stream.operation.js and lib/read-stream.processor.js           *)

RS_openInitFrame0Rx == { "at Object.fs.open" }
RS_openInitFrame1Rx == { "at ReadStream.open" }
\* /Object\.fs\.read/ also matches the frame of fs.readFile
RS_readInitFrame0Rx == { "at Object.fs.read", "at Object.fs.readFile" }
RS_readInitFrame1Rx == { "at ReadStream._read" }
RS_closeInitFrame0Rx == { "at Object.fs.close" }
\* /ReadStream\.close/ also matches the frame of a write stream's close
RS_closeInitFrame2Rx == { "at ReadStream.close", "at WriteStream.ReadStream.close" }

RS_Keys == << "open", "stream", "close" >>

\* info.activity.init[0] throws when the open has no init array
RS_processOpen(op, info, includeActivities) ==
  LET activity == info.activity[1]
  IN IF activity.init = NoStamp THEN [ op EXCEPT !.threw = TRUE ]
     ELSE LET op1 == [ op EXCEPT !.created = << prettyNs(activity.init) >> ]
          IN IF Len(activity.initStack) < 5 THEN op1
             ELSE [ op1 EXCEPT
                      !.createdAt = << activity.initStack[5] >>,
                      !.role["open"] =
                         << RoleRecord(activity, <<>>, <<>>, includeActivities) >> ]

RS_processTick(op, info, includeActivities) ==
  LET activity == info.activity[1]
  IN IF op.processedTick \/ Len(activity.args) < 2 THEN op
     ELSE [ op EXCEPT
              !.role["stream"] = << RoleRecord(activity,
                  << uniqueUserFunctions(activity.functions, "stream.resource") >>,
                  <<>>, includeActivities) >>,
              !.processedTick = TRUE ]

\* before && after ? prettyNs(after - before) : prettyNs(0)
RS_timeSpent(activity) ==
  IF activity.before # NoStamp /\ activity.before # 0
     /\ activity.after # NoStamp /\ activity.after # 0
  THEN prettyNs(activity.after - activity.before) ELSE prettyNs(0)

RS_processRead(op, info, includeActivities) ==
  IF info.activity = <<>> THEN op
  ELSE [ op EXCEPT !.many = Append(@,
           RoleRecord(info.activity[1], <<>>, << RS_timeSpent(info.activity[1]) >>,
                      includeActivities)) ]

RS_processClose(op, info, includeActivities) ==
  IF info.activity = <<>> THEN op
  ELSE [ op EXCEPT
           !.destroyed = << safeFirstStamp(info.activity[1].destroy) >>,
           !.role["close"] =
              << RoleRecord(info.activity[1], <<>>, <<>>, includeActivities) >> ]

RECURSIVE RS_process(_, _, _)
RS_process(op, group, includeActivities) ==
  IF group = <<>> \/ op.threw THEN op
  ELSE LET info == Head(group)
           op1 == IF info.isopen THEN RS_processOpen(op, info, includeActivities)
                  ELSE IF info.istick THEN RS_processTick(op, info, includeActivities)
                  ELSE IF info.isread THEN RS_processRead(op, info, includeActivities)
                  ELSE IF info.isclose THEN RS_processClose(op, info, includeActivities)
                  ELSE op
       IN RS_process(op1, Tail(group), includeActivities)

RS_summary(op, separateFunctions) ==
  summaryWithFunctions(op, RS_Keys, separateFunctions, TRUE)

RS_isOpen(a) ==
  /\ a.type = FSReqWrap
  /\ Len(a.initStack) >= 2
  /\ test(RS_openInitFrame0Rx, a.initStack[1])
  /\ test(RS_openInitFrame1Rx, a.initStack[2])

RS_isTick(a) ==
  /\ a.type = TickObject
  /\ Len(a.args) > 0
  /\ a.args[1].proto = "ReadStream"
  /\ a.args[1].readable

RS_isRead(a) ==
  /\ a.type = FSReqWrap
  /\ Len(a.initStack) >= 2
  /\ test(RS_readInitFrame0Rx, a.initStack[1])
  /\ test(RS_readInitFrame1Rx, a.initStack[2])

RS_isClose(a) ==
  /\ a.type = FSReqWrap
  /\ Len(a.initStack) >= 3
  /\ test(RS_closeInitFrame0Rx, a.initStack[1])
  /\ test(RS_closeInitFrame2Rx, a.initStack[3])

RS_findIds(p, acts) ==
  [ p EXCEPT !.openIds = SetAddAll(@, FindIds(acts, RS_isOpen)),
             !.tickIds = SetAddAll(@, FindIds(acts, RS_isTick)),
             !.readIds = SetAddAll(@, FindIds(acts, RS_isRead)),
             !.closeIds = SetAddAll(@, FindIds(acts, RS_isClose)) ]

RS_separateIntoGroups(p, acts) == separateByTrigger(p, acts, p.openIds)

RS_addOperation(p, acts, cfg, group) ==
  RS_summary(RS_process(NewOperation, resolveGroup(acts, group, p),
                        cfg.includeActivities),
             cfg.separateFunctions)

RS_addOperations(p, acts, cfg) ==
  addOperationsFrom(p, p.groups,
    [ i \in 1..Len(p.groups) |-> RS_addOperation(p, acts, cfg, p.groups[i].val) ])

RS_processCall(p, acts, cfg) ==
  RS_addOperations(RS_separateIntoGroups(RS_findIds(clear(p), acts), acts), acts, cfg)

-----------------------------------------------------------------------------
(* grama: the graph of the activities by id and triggerId                  *)

\* the longest trigger chain that is followed
MaxDepth == 8

\* the ancestors of id, nearest first; the chain ends with the first trigger
\* id that has no activity of its own (the root of the collected tree)
RECURSIVE ancestors(_, _, _)
ancestors(acts, id, depth) ==
  IF depth = 0 \/ ~Has(acts, id) THEN <<>>
  ELSE << Get(acts, id).triggerId >>
         \o ancestors(acts, Get(acts, id).triggerId, depth - 1)

isDescendant(acts, id, ancestorId) ==
  Contains(ancestors(acts, id, MaxDepth), ancestorId)

\* number of trigger steps from id up to the ancestor
distance(acts, id, ancestorId) ==
  LET up == ancestors(acts, id, MaxDepth)
  IN CHOOSE i \in 1..Len(up) : up[i] = ancestorId /\ \A j \in 1..(i - 1) : up[j] # ancestorId

\* the matching descendants of one ancestor, in store order
siblingsUnder(acts, id, ancestorId, matching) ==
  LET sel == SelectSeq(acts, LAMBDA a :
               a.id # id /\ Contains(matching, a.id) /\ isDescendant(acts, a.id, ancestorId))
  IN [ i \in 1..Len(sel) |-> sel[i].id ]

RECURSIVE allSiblingsFrom(_, _, _, _, _)
allSiblingsFrom(acts, id, up, matching, found) ==
  IF up = <<>> THEN found
  ELSE allSiblingsFrom(acts, id, Tail(up), matching,
         SetAddAll(found, siblingsUnder(acts, id, Head(up), matching)))

\* matching holds the ids for which the predicate is true
allSiblings(acts, id, matching) ==
  allSiblingsFrom(acts, id, ancestors(acts, id, MaxDepth), matching, <<>>)

RECURSIVE closestSiblingFrom(_, _, _, _)
closestSiblingFrom(acts, id, up, matching) ==
  IF up = <<>> THEN NoId
  ELSE LET sibs == siblingsUnder(acts, id, Head(up), matching)
       IN IF sibs = <<>> THEN closestSiblingFrom(acts, id, Tail(up), matching)
          ELSE sibs[CHOOSE i \in 1..Len(sibs) :
                 \A j \in 1..Len(sibs) :
                    \/ distance(acts, sibs[i], Head(up)) < distance(acts, sibs[j], Head(up))
                    \/ /\ distance(acts, sibs[i], Head(up)) = distance(acts, sibs[j], Head(up))
                       /\ i <= j]

closestSibling(acts, id, matching) ==
  closestSiblingFrom(acts, id, ancestors(acts, id, MaxDepth), matching)

-----------------------------------------------------------------------------
(* lib/write-stream.operation.js and lib/write-stream.processor.js         *)

WS_openInitFrame0Rx == { "at Object.fs.open" }
WS_openInitFrame1Rx == { "at WriteStream.open" }
\* /at Object\.fs\.write/ also matches the frame of fs.writeFile
WS_writeInitFrame0Rx == { "at Object.fs.write", "at Object.fs.writeFile" }
WS_writeInitFrame1Rx == { "at WriteStream._write" }
WS_closeInitFrame0Rx == { "at Object.fs.close" }
WS_closeInitFrame2Rx == { "at WriteStream.ReadStream.close" }

WS_Keys == << "open", "stream", "close" >>

\* info.activity.init[0] throws when the open has no activity or no init array
WS_processOpen(op, info, includeActivities) ==
  IF info.activity = <<>> \/ info.activity[1].init = NoStamp
  THEN [ op EXCEPT !.threw = TRUE ]
  ELSE LET activity == info.activity[1]
           op1 == [ op EXCEPT !.created = << prettyNs(activity.init) >> ]
       IN IF Len(activity.initStack) < 5 THEN op1
          ELSE [ op1 EXCEPT
                   !.createdAt = << activity.initStack[5] >>,
                   !.role["open"] =
                      << RoleRecord(activity, <<>>, <<>>, includeActivities) >> ]

WS_processTick(op, info, includeActivities) ==
  LET activity == info.activity[1]
  IN IF op.processedTick \/ Len(activity.args) < 3 THEN op
     ELSE [ op EXCEPT
              !.role["stream"] = << RoleRecord(activity,
                  << uniqueUserFunctions(activity.functions, "stream.resource") >>,
                  <<>>, includeActivities) >>,
              !.processedTick = TRUE ]

\* safeFirstStamp always yields an object, so before && after is true
WS_timeSpent(activity) ==
  prettyNs(safeFirstStamp(activity.after) - safeFirstStamp(activity.before))

WS_processWrite(op, info, includeActivities) ==
  IF info.activity = <<>> THEN op
  ELSE [ op EXCEPT !.many = Append(@,
           RoleRecord(info.activity[1], <<>>, << WS_timeSpent(info.activity[1]) >>,
                      includeActivities)) ]

WS_processClose(op, info, includeActivities) ==
  IF info.activity = <<>> THEN op
  ELSE [ op EXCEPT
           !.destroyed = << safeFirstStamp(info.activity[1].destroy) >>,
           !.role["close"] =
              << RoleRecord(info.activity[1], <<>>, <<>>, includeActivities) >> ]

RECURSIVE WS_process(_, _, _)
WS_process(op, group, includeActivities) ==
  IF group = <<>> \/ op.threw THEN op
  ELSE LET info == Head(group)
           op1 == IF info.isopen THEN WS_processOpen(op, info, includeActivities)
                  ELSE IF info.istick THEN WS_processTick(op, info, includeActivities)
                  ELSE IF info.iswrite THEN WS_processWrite(op, info, includeActivities)
                  ELSE IF info.isclose THEN WS_processClose(op, info, includeActivities)
                  ELSE op
       IN WS_process(op1, Tail(group), includeActivities)

WS_summary(op, separateFunctions) ==
  summaryWithFunctions(op, WS_Keys, separateFunctions, TRUE)

WS_isOpen(a) ==
  /\ a.type = FSReqWrap
  /\ Len(a.initStack) >= 2
  /\ test(WS_openInitFrame0Rx, a.initStack[1])
  /\ test(WS_openInitFrame1Rx, a.initStack[2])

WS_isTick(a) ==
  /\ a.type = TickObject
  /\ Len(a.args) >= 3
  /\ a.args[3].proto = "WriteStream"
  /\ a.args[3].writable

WS_isWrite(a) ==
  /\ a.type = FSReqWrap
  /\ Len(a.initStack) >= 2
  /\ test(WS_writeInitFrame0Rx, a.initStack[1])
  /\ test(WS_writeInitFrame1Rx, a.initStack[2])

WS_isClose(a) ==
  /\ a.type = FSReqWrap
  /\ Len(a.initStack) >= 3
  /\ test(WS_closeInitFrame0Rx, a.initStack[1])
  /\ test(WS_closeInitFrame2Rx, a.initStack[3])

WS_findIds(p, acts) ==
  [ p EXCEPT !.openIds = SetAddAll(@, FindIds(acts, WS_isOpen)),
             !.writeIds = SetAddAll(@, FindIds(acts, WS_isWrite)),
             !.tickIds = SetAddAll(@, FindIds(acts, WS_isTick)),
             !.closeIds = SetAddAll(@, FindIds(acts, WS_isClose)) ]

\* remaining sets that are set up by the first call on an instance only
WS_remainingOnce(p) ==
  IF p.calls > 1 THEN [ p EXCEPT !.closeQueue = p.closeIds ]
  ELSE [ p EXCEPT !.remainingWriteIds = p.writeIds,
                  !.remainingOpenIds = p.openIds,
                  !.closeQueue = p.closeIds ]

\* the head of _separateIntoGroups: copies of the classified writes and
\* opens, and the closes the loop is going to visit
WS_remaining(p) ==
  [ p EXCEPT !.remainingWriteIds = p.writeIds,
             !.remainingOpenIds = p.openIds,
             !.closeQueue = p.closeIds ]

\* a loop that puts the close it has handled among the remaining opens
WS_separateOneGrowing(p, acts, closeId) ==
  [ p EXCEPT !.remainingOpenIds = SetAdd(@, closeId) ]

\* a loop that leaves the ids it has used among the remaining ones
WS_separateOneKeeping(p, acts, closeId) ==
  LET writeSiblings == allSiblings(acts, closeId, p.remainingWriteIds)
      oldestWriteId == oldestId(acts, writeSiblings)
      openSiblings == allSiblings(acts, oldestWriteId, p.remainingOpenIds)
      mostImmediateOpen == immediatelyBeforeId(acts, openSiblings, oldestWriteId)
      closestStreamTickAncestor == closestSibling(acts, closeId, p.tickIds)
      group == SetAdd(SetAdd(SetAdd(writeSiblings, mostImmediateOpen),
                             closestStreamTickAncestor), closeId)
  IN IF writeSiblings = <<>> \/ openSiblings = <<>> THEN p
     ELSE [ p EXCEPT !.groups = MapPut(@, mostImmediateOpen, group) ]

\* a loop that drops the remaining opens when it ignores a close
WS_separateOneGivingUp(p, acts, closeId) ==
  LET writeSiblings == allSiblings(acts, closeId, p.remainingWriteIds)
      oldestWriteId == oldestId(acts, writeSiblings)
      openSiblings == allSiblings(acts, oldestWriteId, p.remainingOpenIds)
      mostImmediateOpen == immediatelyBeforeId(acts, openSiblings, oldestWriteId)
      closestStreamTickAncestor == closestSibling(acts, closeId, p.tickIds)
      group == SetAdd(SetAdd(SetAdd(writeSiblings, mostImmediateOpen),
                             closestStreamTickAncestor), closeId)
  IN IF writeSiblings = <<>> \/ openSiblings = <<>>
     THEN [ p EXCEPT !.remainingOpenIds = <<>> ]
     ELSE [ p EXCEPT
              !.groups = MapPut(@, mostImmediateOpen, group),
              !.remainingOpenIds = SetDelete(@, mostImmediateOpen),
              !.remainingWriteIds =
                 SelectSeq(@, LAMBDA w : ~Contains(writeSiblings, w)) ]

\* one iteration of the loop of _separateIntoGroups
WS_separateOne(p, acts, closeId) ==
  LET writeSiblings == allSiblings(acts, closeId, p.remainingWriteIds)
      oldestWriteId == oldestId(acts, writeSiblings)
      openSiblings == allSiblings(acts, oldestWriteId, p.remainingOpenIds)
      mostImmediateOpen == immediatelyBeforeId(acts, openSiblings, oldestWriteId)
      closestStreamTickAncestor == closestSibling(acts, closeId, p.tickIds)
      group == SetAdd(SetAdd(SetAdd(writeSiblings, mostImmediateOpen),
                             closestStreamTickAncestor), closeId)
  IN IF writeSiblings = <<>> THEN p
     ELSE IF openSiblings = <<>> THEN p
     ELSE [ p EXCEPT
              !.groups = MapPut(@, mostImmediateOpen, group),
              !.remainingOpenIds = SetDelete(@, mostImmediateOpen),
              !.remainingWriteIds =
                 SelectSeq(@, LAMBDA w : ~Contains(writeSiblings, w)) ]

WS_addOperation(p, acts, cfg, group) ==
  WS_summary(WS_process(NewOperation, resolveGroup(acts, group, p),
                        cfg.includeActivities),
             cfg.separateFunctions)

WS_addOperations(p, acts, cfg) ==
  addOperationsFrom(p, p.groups,
    [ i \in 1..Len(p.groups) |-> WS_addOperation(p, acts, cfg, p.groups[i].val) ])

-----------------------------------------------------------------------------
(* The orchestrator: processActivities                                     *)

\* the loop of _separateIntoGroups over the closes
RECURSIVE WS_separateAll(_, _)
WS_separateAll(p, acts) ==
  IF p.closeQueue = <<>> THEN p
  ELSE WS_separateAll(
         [ WS_separateOne(p, acts, Head(p.closeQueue))
             EXCEPT !.closeQueue = Tail(p.closeQueue) ], acts)

WS_processCall(p, acts, cfg) ==
  WS_addOperations(
    WS_separateAll(WS_remaining(WS_findIds(clear(p), acts)), acts), acts, cfg)

\* the processors in the order of the array literal
Registered == << "readFile", "readStream", "writeFile", "writeStream" >>

RF_operationSteps == 4
RS_operationSteps == 4
WS_operationSteps == 4

\* open, write+, close
WriteFile_operationSteps == Len(WriteFile_Keys)

\* Processor.operationSteps
operationSteps(k) ==
  CASE k = "readFile" -> RF_operationSteps
    [] k = "readStream" -> RS_operationSteps
    [] k = "writeFile" -> WriteFile_operationSteps
    [] OTHER -> WS_operationSteps

\* Processor.operation: the name of the kind
operation(k) == k

\* the comparison the other way round
byOperationStepsAscending(a, b) ==
  IF operationSteps(a) < operationSteps(b) THEN -1 ELSE 1

byOperationStepsDescending(a, b) ==
  IF operationSteps(a) > operationSteps(b) THEN -1 ELSE 1

\* Array.prototype.sort with a comparison function that never answers 0:
\* the order of the processors it cannot tell apart is up to the engine, and
\* no processor ends up behind one that the function puts after it
SortOutcomes ==
  { P \in [ 1..Len(Registered) -> Range(Registered) ] :
      /\ Range(P) = Range(Registered)
      /\ \A i \in 1..Len(P), j \in 1..Len(P) :
           i < j => byOperationStepsDescending(P[j], P[i]) >= 0 }

\* new Processor({ activities, includeActivities }).process()
processCall(k, acts, includeActivities) ==
  LET cfg == [ includeActivities |-> includeActivities, separateFunctions |-> TRUE ]
  IN CASE k = "readFile" -> RF_processCall(NewProcessor, acts, cfg)
       [] k = "readStream" -> RS_processCall(NewProcessor, acts, cfg)
       [] k = "writeFile" -> WriteFile_processCall(NewProcessor, acts, cfg)
       [] OTHER -> WS_processCall(NewProcessor, acts, cfg)

\* entries for the first operation only
EntriesOfFirst(k, operations) ==
  IF operations = <<>> THEN <<>>
  ELSE << [ name |-> operation(k), steps |-> operationSteps(k),
            rootId |-> operations[1].key, operation |-> operations[1].val ] >>

\* what the inner loop pushes for one processor
Entries(k, operations) ==
  [ i \in 1..Len(operations) |->
      [ name |-> operation(k), steps |-> operationSteps(k),
        rootId |-> operations[i].key, operation |-> operations[i].val ] ]

-----------------------------------------------------------------------------
(* Activity stores.  A store holds up to MaxChains operations of one kind; *)
(* the frames, types and payloads are those of the sample init stacks and  *)
(* of the test fixtures.  Activities are numbered 10k .. 10k + 5 for the   *)
(* k-th operation, and Retime stamps them in store order, so that a store  *)
(* is sorted by init time as ah-fs delivers it.                            *)

\* operations per store
MaxChains == 2

\* process() calls per behaviour
MaxRuns == 2

UserFrame == "at Test.<anonymous>"

RF_openStack == << "at Object.fs.readFile", UserFrame >>
RF_statStack == << "at FSReqWrap.readFileAfterOpen" >>
RF_readStack == << "at ReadFileContext.read", "at FSReqWrap.readFileAfterStat" >>
RF_closeStack == << "at ReadFileContext.close", "at FSReqWrap.readFileAfterRead" >>

WriteFile_openStack == << "at Object.fs.open", "at Object.fs.writeFile", UserFrame >>
WriteFile_writeStack == << "at Object.fs.write", "at writeAll", "at writeFd" >>
WriteFile_closeStack == << "at Object.fs.close", "at fs.js", "at FSReqWrap.wrapper" >>

RS_openStack ==
  << "at Object.fs.open", "at ReadStream.open", "at new ReadStream",
     "at Object.fs.createReadStream", UserFrame >>
RS_readStack == << "at Object.fs.read", "at ReadStream._read", "at ReadStream.<anonymous>" >>
RS_closeStack == << "at Object.fs.close", "at close", "at ReadStream.close" >>
RS_tickStack == << "at process.nextTick", "at onwrite" >>

WS_openStack ==
  << "at Object.fs.open", "at WriteStream.open", "at new WriteStream",
     "at Object.fs.createWriteStream", UserFrame >>
WS_writeStack == << "at Object.fs.write", "at WriteStream._write", "at doWrite" >>
WS_closeStack == << "at Object.fs.close", "at close", "at WriteStream.ReadStream.close" >>

\* resource.args of the ticks: [ ReadStream, ReadableState, WriteStream ] when
\* the read stream is piped, [ ReadStream, ReadableState ] when it is not
RS_tickArgs ==
  << [ proto |-> "ReadStream", readable |-> TRUE, writable |-> FALSE ],
     [ proto |-> "ReadableState", readable |-> FALSE, writable |-> FALSE ] >>
WS_tickArgs ==
  RS_tickArgs \o << [ proto |-> "WriteStream", readable |-> FALSE, writable |-> TRUE ] >>

\* resource.functions: a callback of the user and a function of node core
UserFn == Fn(<< "callback" >>, "/app.js", 1, 1, "cb", "", Undefined)
CoreFn == Fn(<< "oncomplete" >>, "fs.js", 1, 1, "wrapper", "", Undefined)

FnPatterns == { "absent", "user", "core", "first" }

\* the functions of the i-th activity of an operation
ChainFunctions(pattern, i) ==
  CASE pattern = "user" -> << << UserFn >> >>
    [] pattern = "core" -> << << CoreFn >> >>
    [] pattern = "first" -> IF i = 0 THEN << << UserFn >> >> ELSE <<>>
    [] OTHER -> <<>>

\* stamps are filled in by Retime; NoStamp marks an array that is missing
Present == [ init |-> 0, before |-> 0, after |-> 0, destroy |-> 0 ]

Without(field) == [ Present EXCEPT ![field] = NoStamp ]

Retime(store, base) ==
  [ i \in 1..Len(store) |->
      [ store[i] EXCEPT
          !.init = IF @ = NoStamp THEN NoStamp ELSE base + 2 * i,
          !.before = IF @ = NoStamp THEN NoStamp ELSE base + 2 * i,
          !.after = IF @ = NoStamp THEN NoStamp ELSE base + 2 * i + 1,
          !.destroy = IF @ = NoStamp THEN NoStamp ELSE base + 2 * i + 1 ] ]

\* an operation of the store: c.k its number, c.variant what is degraded,
\* c.fd its file descriptor, c.fns its functions, c.root what triggered it
Chain(k, variant, fd, fns, root) ==
  [ k |-> k, variant |-> variant, fd |-> fd, fns |-> fns, root |-> root ]

RF_Variants ==
  { "full", "noRead", "twoReads", "unordered", "noStack", "noInit", "noDestroy",
    "shortOpen", "noFd" }

\* fs.readFile: open, stat, read(s), close on one file descriptor
RF_chain(c) ==
  LET b == 10 * c.k
      v == c.variant
      fd == IF v = "noFd" THEN -1 ELSE c.fd
      open == Activity(b, c.root, FSReqWrap,
                IF v = "shortOpen" THEN << RF_openStack[1] >> ELSE RF_openStack,
                Present, fd, <<>>, ChainFunctions(c.fns, 0))
      stat == Activity(b + 1, b, FSReqWrap, RF_statStack,
                IF v = "noInit" THEN Without("init") ELSE Present,
                fd, <<>>, ChainFunctions(c.fns, 1))
      read == Activity(b + 2, b + 1, FSReqWrap,
                IF v = "noStack" THEN <<>> ELSE RF_readStack,
                Present, fd, <<>>, ChainFunctions(c.fns, 2))
      read2 == Activity(b + 3, b + 2, FSReqWrap, RF_readStack,
                Present, fd, <<>>, ChainFunctions(c.fns, 3))
      close == Activity(b + 4, IF v = "twoReads" THEN b + 3 ELSE b + 2, FSReqWrap,
                RF_closeStack,
                IF v = "noDestroy" THEN Without("destroy") ELSE Present,
                fd, <<>>, ChainFunctions(c.fns, 4))
  IN CASE v = "noRead" -> << open, stat, close >>
       [] v = "twoReads" -> << open, stat, read, read2, close >>
       [] v = "unordered" -> << open, read, stat, close >>
       [] OTHER -> << open, stat, read, close >>

WriteFile_Variants ==
  { "full", "twoWrites", "noClose", "noInit", "noDestroy", "shortOpen", "noStack" }

\* fs.writeFile: open, write(s), close, each triggered by the one before
WriteFile_chain(c) ==
  LET b == 10 * c.k
      v == c.variant
      open == Activity(b, c.root, FSReqWrap,
                IF v = "shortOpen" THEN SubSeq(WriteFile_openStack, 1, 2)
                ELSE WriteFile_openStack,
                IF v = "noInit" THEN Without("init") ELSE Present,
                c.fd, <<>>, ChainFunctions(c.fns, 0))
      write == Activity(b + 1, b, FSReqWrap,
                IF v = "noStack" THEN <<>> ELSE WriteFile_writeStack,
                Present, c.fd, <<>>, ChainFunctions(c.fns, 1))
      write2 == Activity(b + 2, b + 1, FSReqWrap, WriteFile_writeStack,
                Present, c.fd, <<>>, ChainFunctions(c.fns, 2))
      close == Activity(b + 4, IF v = "twoWrites" THEN b + 2 ELSE b + 1, FSReqWrap,
                WriteFile_closeStack,
                IF v = "noDestroy" THEN Without("destroy") ELSE Present,
                c.fd, <<>>, ChainFunctions(c.fns, 4))
  IN CASE v = "noClose" -> << open, write >>
       [] v = "twoWrites" -> << open, write, write2, close >>
       [] OTHER -> << open, write, close >>

RS_Variants ==
  { "full", "noTick", "noClose", "noInit", "noDestroy", "shortOpen", "noArgs",
    "noStamps" }

\* fs.createReadStream: open, read, the stream's tick, read, close
RS_chain(c) ==
  LET b == 10 * c.k
      v == c.variant
      open == Activity(b, c.root, FSReqWrap,
                IF v = "shortOpen" THEN SubSeq(RS_openStack, 1, 2) ELSE RS_openStack,
                IF v = "noInit" THEN Without("init") ELSE Present,
                c.fd, <<>>, <<>>)
      read == Activity(b + 1, b, FSReqWrap, RS_readStack,
                IF v = "noStamps" THEN Without("before") ELSE Present,
                c.fd, <<>>, <<>>)
      tick == Activity(b + 2, b + 1, TickObject, RS_tickStack, Present, -1,
                IF v = "noArgs" THEN <<>> ELSE RS_tickArgs,
                ChainFunctions(c.fns, 0))
      read2 == Activity(b + 3, b + 1, FSReqWrap, RS_readStack,
                IF v = "noStamps" THEN Without("after") ELSE Present,
                c.fd, <<>>, <<>>)
      close == Activity(b + 4, b + 3, FSReqWrap, RS_closeStack,
                IF v = "noDestroy" THEN Without("destroy") ELSE Present,
                c.fd, <<>>, <<>>)
  IN CASE v = "noTick" -> << open, read, read2, close >>
       [] v = "noClose" -> << open, read, tick, read2 >>
       [] OTHER -> << open, read, tick, read2, close >>

WS_Variants ==
  { "full", "twoWrites", "noTick", "noWrite", "noOpen", "lateOpen", "noInit",
    "noDestroy", "shortOpen" }

\* fs.createWriteStream fed by a read stream: the open, the read that feeds
\* the stream, the write(s) and the tick it triggers, and the close
WS_chain(c) ==
  LET b == 10 * c.k
      v == c.variant
      open == Activity(b, c.root, FSReqWrap,
                IF v = "shortOpen" THEN SubSeq(WS_openStack, 1, 2) ELSE WS_openStack,
                IF v = "noInit" THEN Without("init") ELSE Present,
                c.fd, <<>>, <<>>)
      read == Activity(b + 1, c.root, FSReqWrap, RS_readStack, Present, c.fd, <<>>, <<>>)
      write == Activity(b + 2, b + 1, FSReqWrap, WS_writeStack, Present, c.fd, <<>>, <<>>)
      tick == Activity(b + 3, b + 1, TickObject, RS_tickStack, Present, -1,
                WS_tickArgs, ChainFunctions(c.fns, 0))
      write2 == Activity(b + 4, b + 2, FSReqWrap, WS_writeStack, Present, c.fd, <<>>, <<>>)
      close == Activity(b + 5, b + 2, FSReqWrap, WS_closeStack,
                IF v = "noDestroy" THEN Without("destroy") ELSE Present,
                c.fd, <<>>, <<>>)
      closeNoWrite == [ close EXCEPT !.triggerId = b + 1 ]
  IN CASE v = "twoWrites" -> << open, read, write, tick, write2, close >>
       [] v = "noTick" -> << open, read, write, close >>
       [] v = "noWrite" -> << open, read, tick, closeNoWrite >>
       [] v = "noOpen" -> << read, write, tick, close >>
       [] v = "lateOpen" -> << read, write, open, tick, close >>
       [] OTHER -> << open, read, write, tick, close >>

\* where the k-th operation goes: after the others, inside the one before it
\* (ahead of that one's last activity), or with its first activity ahead of
\* all others (two operations started together)
Place(store, chain, layout) ==
  CASE layout = "nested" ->
         SubSeq(store, 1, Len(store) - 1) \o chain \o << store[Len(store)] >>
    [] layout = "together" -> << chain[1] >> \o store \o Tail(chain)
    [] OTHER -> store \o chain

Kinds == { "readFile", "writeFile", "readStream", "writeStream" }

Variants(k) ==
  CASE k = "readFile" -> RF_Variants
    [] k = "writeFile" -> WriteFile_Variants
    [] k = "readStream" -> RS_Variants
    [] OTHER -> WS_Variants

chainOf(k, c) ==
  CASE k = "readFile" -> RF_chain(c)
    [] k = "writeFile" -> WriteFile_chain(c)
    [] k = "readStream" -> RS_chain(c)
    [] OTHER -> WS_chain(c)

\* the first operation of a store: any variant, or complete with any functions
FirstChains(k) ==
  { Chain(1, v, 101, "absent", 1) : v \in Variants(k) }
    \cup { Chain(1, "full", 101, f, 1) : f \in FnPatterns }

\* a further operation: complete; on its own or on the first one's file
\* descriptor; triggered by the root, by a root of its own, or by the second
\* activity of the operation before it
MoreChains(k, n) ==
  CASE k = "readFile" ->
         { [ c |-> Chain(n, "full", fd, "absent", n), layout |-> "after" ] :
             fd \in { 101, 100 + n } }
           \cup { [ c |-> Chain(n, "noRead", 100 + n, "absent", n), layout |-> "after" ] }
    [] k \in { "writeFile", "readStream" } ->
         { [ c |-> Chain(n, "full", 100 + n, "absent", 1), layout |-> "after" ],
           [ c |-> Chain(n, "full", 100 + n, "absent", 10 * (n - 1) + 1),
             layout |-> "nested" ] }
    [] OTHER ->
         { [ c |-> Chain(n, "full", 100 + n, "absent", 1), layout |-> "after" ],
           [ c |-> Chain(n, "full", 100 + n, "absent", n), layout |-> "after" ],
           [ c |-> Chain(n, "full", 100 + n, "absent", 1), layout |-> "together" ] }

RECURSIVE StoresOf(_, _)
StoresOf(k, n) ==
  IF n = 1 THEN { chainOf(k, c) : c \in FirstChains(k) }
  ELSE { Place(s, chainOf(k, m.c), m.layout) :
           s \in StoresOf(k, n - 1), m \in MoreChains(k, n) }

\* the first init stamp: write stream stores also start at a one-digit stamp
TimeBases(k) == IF k = "writeStream" THEN { 7, 10 } ELSE { 10 }

Stores(k) ==
  { Retime(s, base) :
      s \in UNION { StoresOf(k, n) : n \in 1..MaxChains }, base \in TimeBases(k) }

\* the options of a processor's constructor
Configs == [ includeActivities : BOOLEAN, separateFunctions : BOOLEAN ]

Idle == [ op |-> "none" ]

-----------------------------------------------------------------------------
(* The processors at work: one processor of one kind over one store.       *)

Init ==
  /\ kind \in Kinds
  /\ activities \in Stores(kind)
  /\ config \in Configs
  /\ proc = NewProcessor
  /\ runs = <<>>
  /\ orch = Idle
  /\ util = Idle
  /\ uf = Idle

\* process() is called on the instance
Called(p) == [ p EXCEPT !.calls = @ + 1 ]

Returns(r) ==
  /\ proc' = r.proc
  /\ runs' = Append(runs, Result(r.threw, r.proc))
  /\ UNCHANGED << orch, activities, config, kind, util, uf >>

CanProcess(k) == kind = k /\ proc.pc = "idle" /\ Len(runs) < MaxRuns

ProcessReadFile ==
  /\ CanProcess("readFile")
  /\ Returns(RF_processCall(Called(proc), activities, config))

ProcessWriteFile ==
  /\ CanProcess("writeFile")
  /\ Returns(WriteFile_processCall(Called(proc), activities, config))

ProcessReadStream ==
  /\ CanProcess("readStream")
  /\ Returns(RS_processCall(Called(proc), activities, config))

\* WriteStreamProcessor.process() up to the loop of _separateIntoGroups
WS_Start ==
  /\ CanProcess("writeStream")
  /\ proc' = [ WS_remaining(WS_findIds(clear(Called(proc)), activities))
                 EXCEPT !.pc = "separate" ]
  /\ UNCHANGED << orch, activities, config, kind, runs, util, uf >>

\* one close of the loop
WS_Separate ==
  /\ proc.pc = "separate"
  /\ proc.closeQueue # <<>>
  /\ proc' = [ WS_separateOne(proc, activities, Head(proc.closeQueue))
                 EXCEPT !.closeQueue = Tail(proc.closeQueue) ]
  /\ UNCHANGED << orch, activities, config, kind, runs, util, uf >>

\* the loop is over: _addOperations and the return
WS_Finish ==
  /\ proc.pc = "separate"
  /\ proc.closeQueue = <<>>
  /\ LET r == WS_addOperations(proc, activities, config)
     IN Returns([ r EXCEPT !.proc.pc = "idle" ])

\* a second processor is constructed over the same store
NewInstance ==
  /\ proc.pc = "idle"
  /\ proc.calls > 0
  /\ Len(runs) < MaxRuns
  /\ proc' = NewProcessor
  /\ UNCHANGED << orch, activities, config, kind, runs, util, uf >>

Next ==
  \/ ProcessReadFile
  \/ ProcessWriteFile
  \/ ProcessReadStream
  \/ WS_Start
  \/ WS_Separate
  \/ WS_Finish
  \/ NewInstance

Spec == Init /\ [][Next]_vars

-----------------------------------------------------------------------------
(* The timestamp queries of lib/utils.js, called on their own: a store of  *)
(* three activities, candidate ids of which one is not in the store, and a *)
(* reference id.  The stamps have one and two digits.                      *)

\* the largest init stamp
MaxStamp == 12

UtilStamps == (8..MaxStamp) \cup { NoStamp }

UtilActivity(id, init) ==
  Activity(id, 0, FSReqWrap, <<>>, [ Present EXCEPT !.init = init ], -1, <<>>, <<>>)

UtilStores ==
  { [ i \in 1..3 |-> UtilActivity(i, f[i]) ] : f \in [ 1..3 -> UtilStamps ] }

\* the candidate ids in every order, without repetition; no activity has id 9
Candidates ==
  LET C == { 1, 2, 9 }
  IN { s \in UNION { [ 1..n -> C ] : n \in 0..3 } :
         \A i \in DOMAIN s, j \in DOMAIN s : i # j => s[i] # s[j] }

InitUtil ==
  /\ util \in [ op : { "none" }, acts : UtilStores, ids : Candidates,
                ref : { 3, 9 }, threw : { FALSE }, result : { NoId } ]
  /\ activities = <<>>
  /\ config = [ includeActivities |-> FALSE, separateFunctions |-> TRUE ]
  /\ kind = "none"
  /\ proc = NewProcessor
  /\ runs = <<>>
  /\ orch = Idle
  /\ uf = Idle

CallImmediatelyBeforeId ==
  /\ util.op = "none"
  /\ util' = [ util EXCEPT
       !.op = "immediatelyBeforeId",
       !.threw = immediatelyBeforeIdThrows(util.acts, util.ref),
       !.result = IF immediatelyBeforeIdThrows(util.acts, util.ref) THEN NoId
                  ELSE immediatelyBeforeId(util.acts, util.ids, util.ref) ]
  /\ UNCHANGED << orch, activities, config, kind, proc, runs, uf >>

CallOldestId ==
  /\ util.op = "none"
  /\ util' = [ util EXCEPT !.op = "oldestId",
                           !.result = oldestId(util.acts, util.ids) ]
  /\ UNCHANGED << orch, activities, config, kind, proc, runs, uf >>

NextUtil ==
  \/ CallImmediatelyBeforeId
  \/ CallOldestId

SpecUtil == InitUtil /\ [][NextUtil]_vars

-----------------------------------------------------------------------------
(* The user function transforms of lib/utils.js on one assembled readFile  *)
(* operation, as ReadFileOperation.summary applies them.                   *)

\* the largest line a function is defined at
MaxLine == 2

UF_Fns ==
  { Fn(<< "callback" >>, file, line, 1, name, inferredName, arguments) :
      file \in { "/app.js", "fs.js" }, line \in 1..MaxLine, name \in { "", "cb" },
      inferredName \in { "", "inf" }, arguments \in { Undefined, "args" } }

\* resource.functions of the open and of the close: absent, empty, one function
UF_Functions == { <<>>, << <<>> >> } \cup { << << f >> >> : f \in UF_Fns }

\* the group of the operation: open 10, stat 11, read 12, close 14
UF_Group(fo, fs, fr, fc) ==
  Retime(<< Activity(10, 1, FSReqWrap, RF_openStack, Present, 101, <<>>, fo),
            Activity(11, 10, FSReqWrap, RF_statStack, Present, 101, <<>>, fs),
            Activity(12, 11, FSReqWrap, RF_readStack, Present, 101, <<>>, fr),
            Activity(14, 12, FSReqWrap, RF_closeStack, Present, 101, <<>>, fc) >>, 10)

UF_Sets ==
  [ NewProcessor EXCEPT !.openIds = << 10 >>, !.statIds = << 11 >>,
                        !.readIds = << 12 >>, !.closeIds = << 14 >> ]

\* the operation object that _addOperation makes of the group
UF_Operation(acts) ==
  RF_process(NewOperation, resolveGroup(acts, << 10, 11, 12, 14 >>, UF_Sets), FALSE)

\* summary({ separateFunctions: false })
UF_Assembled(acts) == RF_summary(UF_Operation(acts), FALSE).info

InitUF ==
  /\ \E fo \in UF_Functions, fc \in UF_Functions :
       \E fs \in { <<>>, << <<>> >> }, fr \in { <<>>, << <<>> >> } :
          uf = [ stage |-> "assembled",
                 op |-> UF_Operation(UF_Group(fo, fs, fr, fc)),
                 flags |-> [ separateFunctions |-> FALSE, mergeFunctions |-> FALSE ],
                 info |-> UF_Assembled(UF_Group(fo, fs, fr, fc)),
                 result |-> UF_Assembled(UF_Group(fo, fs, fr, fc)),
                 before |-> UF_Assembled(UF_Group(fo, fs, fr, fc)) ]
  /\ activities = <<>>
  /\ config = [ includeActivities |-> FALSE, separateFunctions |-> TRUE ]
  /\ kind = "none"
  /\ proc = NewProcessor
  /\ runs = <<>>
  /\ orch = Idle
  /\ util = Idle

UF_Separate ==
  /\ uf.stage = "assembled"
  /\ ~separateUserFunctionsThrows(uf.result)
  /\ uf' = [ uf EXCEPT !.stage = "separated",
                       !.before = uf.result,
                       !.result = separateUserFunctions(uf.result) ]
  /\ UNCHANGED << orch, activities, config, kind, proc, runs, util >>

UF_Merge ==
  /\ uf.stage = "separated"
  /\ uf' = [ uf EXCEPT !.stage = "merged",
                       !.before = uf.result,
                       !.result = mergeUserFunctions(uf.result) ]
  /\ UNCHANGED << orch, activities, config, kind, proc, runs, util >>

\* mergeUserFunctions on what mergeUserFunctions returned
UF_MergeAgain ==
  /\ uf.stage = "merged"
  /\ uf' = [ uf EXCEPT !.stage = "remerged",
                       !.before = uf.result,
                       !.result = mergeUserFunctions(uf.result) ]
  /\ UNCHANGED << orch, activities, config, kind, proc, runs, util >>

\* summary({ separateFunctions, mergeFunctions }) with any flags
UF_Summary ==
  /\ uf.stage = "assembled"
  /\ \E sf \in BOOLEAN, mf \in BOOLEAN :
       LET r == summaryWithFunctions(uf.op, RF_Keys, sf, mf)
       IN /\ ~r.threw
          /\ uf' = [ uf EXCEPT
                      !.stage = "summary",
                      !.flags = [ separateFunctions |-> sf, mergeFunctions |-> mf ],
                      !.before = uf.result,
                      !.result = r.info ]
  /\ UNCHANGED << orch, activities, config, kind, proc, runs, util >>

NextUF ==
  \/ UF_Separate
  \/ UF_Merge
  \/ UF_MergeAgain
  \/ UF_Summary

SpecUF == InitUF /\ [][NextUF]_vars

-----------------------------------------------------------------------------
(* The orchestrator at work over a store that holds operations of any      *)
(* kinds: the first one in any variant, the others complete.               *)

RECURSIVE MixedStoresOf(_)
MixedStoresOf(n) ==
  IF n = 1 THEN UNION { { chainOf(k, c) : c \in FirstChains(k) } : k \in Kinds }
  ELSE { s \o chainOf(k, Chain(n, "full", 100 + n, "absent", n)) :
           s \in MixedStoresOf(n - 1), k \in Kinds }

MixedStores ==
  { Retime(s, 10) : s \in UNION { MixedStoresOf(n) : n \in 1..MaxChains } }

InitAll ==
  /\ kind = "all"
  /\ activities \in MixedStores
  /\ config \in [ includeActivities : BOOLEAN, separateFunctions : { TRUE } ]
  /\ proc = NewProcessor
  /\ runs = <<>>
  /\ util = Idle
  /\ uf = Idle
  /\ orch = [ pc |-> "sort", processors |-> Registered, i |-> 1,
              allOperations |-> <<>> ]

\* processActivities is called: the processors are sorted
Orch_Sort ==
  /\ kind = "all"
  /\ orch.pc = "sort"
  /\ \E P \in SortOutcomes :
       orch' = [ orch EXCEPT !.pc = "loop", !.processors = P ]
  /\ UNCHANGED << activities, config, kind, proc, runs, util, uf >>

\* one round of the loop: a processor is made and run, and its operations
\* are pushed; an exception of process() ends processActivities
Orch_Process ==
  /\ kind = "all"
  /\ orch.pc = "loop"
  /\ orch.i <= Len(orch.processors)
  /\ LET k == orch.processors[orch.i]
         r == processCall(k, activities, config.includeActivities)
     IN /\ proc' = r.proc
        /\ runs' = Append(runs, Result(r.threw, r.proc))
        /\ orch' = IF r.threw THEN [ orch EXCEPT !.pc = "threw" ]
                   ELSE [ orch EXCEPT
                            !.i = @ + 1,
                            !.allOperations = @ \o Entries(k, r.proc.operations) ]
  /\ UNCHANGED << activities, config, kind, util, uf >>

\* the loop is over: allOperations is returned
Orch_Return ==
  /\ kind = "all"
  /\ orch.pc = "loop"
  /\ orch.i > Len(orch.processors)
  /\ orch' = [ orch EXCEPT !.pc = "returned" ]
  /\ UNCHANGED << activities, config, kind, proc, runs, util, uf >>

NextAll ==
  \/ Orch_Sort
  \/ Orch_Process
  \/ Orch_Return

SpecAll == InitAll /\ [][NextAll]_vars

-----------------------------------------------------------------------------
(* idsTriggeredBy, one iteration of its loop at a time, over stores in     *)
(* which every activity is triggered by an earlier one or from outside     *)
(* (triggerId 0).                                                          *)

\* activities per store
MaxWalk == 3

WalkStores ==
  UNION { { [ i \in 1..n |-> Activity(i, t[i], FSReqWrap, <<>>, Present, -1, <<>>, <<>>) ] :
              t \in { f \in [ 1..n -> 0..n ] : \A i \in 1..n : f[i] < i } } :
          n \in 1..MaxWalk }

InitWalk ==
  /\ \E acts \in WalkStores :
       \E id \in 1..Len(acts), stop \in SUBSET (1..Len(acts)) :
          util = [ op |-> "idsTriggeredBy", acts |-> acts, id |-> id, stop |-> stop,
                   pc |-> "loop", i |-> 1, ids |-> << id >> ]
  /\ activities = <<>>
  /\ config = [ includeActivities |-> FALSE, separateFunctions |-> TRUE ]
  /\ kind = "none"
  /\ proc = NewProcessor
  /\ runs = <<>>
  /\ orch = Idle
  /\ uf = Idle

\* one iteration: the activity joins the ids when its trigger is among them,
\* and the loop is left when stop is true of it
Walk_Step ==
  /\ util.op = "idsTriggeredBy"
  /\ util.pc = "loop"
  /\ util.i <= Len(util.acts)
  /\ LET activity == util.acts[util.i]
         ids == IF Contains(util.ids, activity.triggerId)
                THEN SetAdd(util.ids, activity.id) ELSE util.ids
     IN util' = IF activity.id \in util.stop
                THEN [ util EXCEPT !.ids = ids, !.pc = "returned" ]
                ELSE [ util EXCEPT !.ids = ids, !.i = @ + 1 ]
  /\ UNCHANGED << orch, activities, config, kind, proc, runs, uf >>

\* the store is exhausted: the ids are returned
Walk_Return ==
  /\ util.op = "idsTriggeredBy"
  /\ util.pc = "loop"
  /\ util.i > Len(util.acts)
  /\ util' = [ util EXCEPT !.pc = "returned" ]
  /\ UNCHANGED << orch, activities, config, kind, proc, runs, uf >>

NextWalk ==
  \/ Walk_Step
  \/ Walk_Return

SpecWalk == InitWalk /\ [][NextWalk]_vars

-----------------------------------------------------------------------------
(* The loops under fairness. process(), processActivities and              *)
(* idsTriggeredBy are synchronous: once called, their loops are run by the *)
(* engine until they are left, so a round of a loop that can be taken is   *)
(* taken.                                                                  *)

\* the flags shape the reports only, not the loops: the defaults are taken
InitLive ==
  \/ Init /\ kind = "writeStream" /\ ~config.includeActivities /\ config.separateFunctions
  \/ InitAll /\ ~config.includeActivities
  \/ InitWalk

NextLive ==
  \/ WS_Start
  \/ WS_Separate
  \/ WS_Finish
  \/ NewInstance
  \/ NextAll
  \/ NextWalk

\* the loop of _separateIntoGroups is being run
InSeparate == proc.pc = "separate"

\* processActivities is being run
InProcessActivities == kind = "all" /\ orch.pc \in { "sort", "loop" }

\* the loop of idsTriggeredBy is being run
InWalk == util.op = "idsTriggeredBy" /\ util.pc = "loop"

\* weak fairness of the rounds of the write stream's loop and of its return,
\* with ENABLED written out: a round or the return can be taken exactly when
\* the loop is being run
FairSeparate ==
  []<>(~InSeparate) \/ []<><<WS_Separate \/ WS_Finish>>_vars

\* weak fairness of the steps of processActivities, with ENABLED written out
FairProcessActivities ==
  []<>(~InProcessActivities) \/ []<><<NextAll>>_vars

SpecLive ==
  /\ InitLive
  /\ [][NextLive]_vars
  /\ WF_vars(NextWalk)
  /\ FairSeparate
  /\ FairProcessActivities

-----------------------------------------------------------------------------
(* Properties                                                              *)

HasFrame(a, rx) == \E i \in 1..Len(a.initStack) : a.initStack[i] \in rx

FirstStamp(x) == IF x = NoStamp THEN 0 ELSE x

Ids(acts) == [ i \in 1..Len(acts) |-> acts[i].id ]

\* C1: after process() of a kind, no two groups of that kind share a member id
C1_GroupsAreDisjoint ==
  \A i \in 1..Len(runs) :
     \A a, b \in 1..Len(runs[i].groups) :
        a # b => Range(runs[i].groups[a].val) \cap Range(runs[i].groups[b].val) = {}

\* the candidates of a call that are in the store and not initialised after
\* the reference
Eligible ==
  { id \in Range(util.ids) :
      /\ Has(util.acts, id)
      /\ Get(util.acts, id).init # NoStamp
      /\ Get(util.acts, id).init <= Get(util.acts, util.ref).init }

\* C2: immediatelyBeforeId returns, among the candidates in the store whose
\* init does not exceed the reference's init, the one with the largest init
C2_ClosestBefore ==
  ( /\ util.op = "immediatelyBeforeId"
    /\ ~util.threw
    /\ Get(util.acts, util.ref).init # NoStamp
    /\ Eligible # {} )
  => /\ util.result \in Eligible
     /\ \A e \in Eligible :
          Get(util.acts, e).init <= Get(util.acts, util.result).init

\* C3: mergeUserFunctions applied to an already merged list returns the list
\* unchanged, with the same propertyPaths, name and args
C3_MergeIsIdempotent ==
  uf.stage = "remerged" => uf.result.userFunctions = uf.before.userFunctions

\* the descriptors the roles of an assembled operation carry
RoleDescriptors(info) ==
  UNION { Range(info.role[info.keys[i]][1].userFunctions[1].list) :
            i \in 1..Len(info.keys) }

\* C4: separating and then merging yields a userFunctions list with one
\* entry per distinct location (file, line, column) of the roles' descriptors
C4_OneEntryPerLocation ==
  uf.stage = "merged" =>
    Len(uf.result.userFunctions[1]) =
      Cardinality({ << d.file, d.line, d.column >> : d \in RoleDescriptors(uf.info) })

\* C5: process() of every kind returns normally on every store, whatever
\* stacks, timestamps or roles are missing
C5_NeverThrows == \A i \in 1..Len(runs) : ~runs[i].threw

\* C6: a second process() over the same store, on the same instance or on a
\* new one, returns the groups and operations of the first
C6_Deterministic == \A i \in 1..Len(runs) : runs[i] = runs[1]

\* a second call on the instance that made the first, with a group found
C6_SecondCallOnInstance ==
  /\ kind = "writeStream"
  /\ Len(runs) = 2
  /\ proc.calls = 2
  /\ ~runs[2].threw
  /\ runs[2].groups # <<>>

\* open, stat, read, close of one readFile: matching stacks, each triggered by
\* the one before, initialised in that order, on one file descriptor
IsReadFileChain(c) ==
  /\ Len(c) = 4
  /\ HasFrame(c[1], RF_openInitFrame0Rx)
  /\ HasFrame(c[2], RF_statInitFrame0Rx)
  /\ HasFrame(c[3], RF_readInitFrame1Rx)
  /\ HasFrame(c[4], RF_closeInitFrame0Rx)
  /\ \A i \in 1..3 : c[i + 1].triggerId = c[i].id
  /\ \A i \in 1..4 : c[i].init # NoStamp /\ c[i].fd = c[1].fd
  /\ \A i \in 1..3 : c[i].init < c[i + 1].init
  /\ c[1].fd >= 0

\* C7: one readFile chain gives one group and one operation, keyed by the
\* open's id, with the four ids in init order and the open and close ids
C7_OneChainOneGroup ==
  ( kind = "readFile" /\ IsReadFileChain(activities) /\ runs # <<>> )
  => /\ ~runs[1].threw
     /\ runs[1].groups = << [ key |-> activities[1].id, val |-> Ids(activities) ] >>
     /\ MapKeys(runs[1].operations) = << activities[1].id >>
     /\ runs[1].operations[1].val.role["open"] # <<>>
     /\ runs[1].operations[1].val.role["open"][1].id = activities[1].id
     /\ runs[1].operations[1].val.role["close"] # <<>>
     /\ runs[1].operations[1].val.role["close"][1].id = activities[4].id

\* the n-th chain of a store of readFile chains
Block(acts, n) == SubSeq(acts, 4 * n - 3, 4 * n)

\* a store of readFile chains, one after the other, whose opens are triggered
\* by different activities outside the store
IsReadFileChains(acts) ==
  /\ Len(acts) > 0
  /\ Len(acts) % 4 = 0
  /\ \A n \in 1..(Len(acts) \div 4) :
       /\ IsReadFileChain(Block(acts, n))
       /\ ~Has(acts, Block(acts, n)[1].triggerId)
       /\ \A m \in 1..(Len(acts) \div 4) :
            m # n => Block(acts, m)[1].triggerId # Block(acts, n)[1].triggerId

\* C8: N readFile chains give N groups, keyed by the chains' open ids in
\* store order, each holding the four ids of its chain
C8_OneGroupPerChain ==
  ( kind = "readFile" /\ IsReadFileChains(activities) /\ runs # <<>> )
  => /\ ~runs[1].threw
     /\ runs[1].groups =
          [ n \in 1..(Len(activities) \div 4) |->
              [ key |-> Block(activities, n)[1].id, val |-> Ids(Block(activities, n)) ] ]

\* the activities of one file descriptor are exactly these four ids, which
\* are an open, a stat, a read and a close in init order
IsCompleteCandidate(fd, ids) ==
  /\ fd >= 0
  /\ Len(ids) = 4
  /\ Range(ids) = { activities[i].id : i \in { j \in 1..Len(activities) : activities[j].fd = fd } }
  /\ \A i \in 1..3 : Get(activities, ids[i]).init <= Get(activities, ids[i + 1]).init
  /\ HasFrame(Get(activities, ids[1]), RF_openInitFrame0Rx)
  /\ HasFrame(Get(activities, ids[2]), RF_statInitFrame0Rx)
  /\ HasFrame(Get(activities, ids[3]), RF_readInitFrame1Rx)
  /\ HasFrame(Get(activities, ids[4]), RF_closeInitFrame0Rx)

\* C9: ReadFileProcessor returns a group, and an operation, only for a
\* candidate set that is exactly an open, a stat, a read and a close in init
\* order
C9_OnlyCompleteChains ==
  kind = "readFile" =>
    \A i \in 1..Len(runs) :
       /\ \A g \in 1..Len(runs[i].groups) :
            IsCompleteCandidate(runs[i].groups[g].key, runs[i].groups[g].val)
       /\ Range(MapKeys(runs[i].operations)) \subseteq Range(MapKeys(runs[i].groups))

\* a store of an open, a stat and a close on one file descriptor, processed:
\* no group and no operation
C9_NoReadNoGroup ==
  /\ kind = "readFile"
  /\ Len(activities) = 3
  /\ HasFrame(activities[1], RF_openInitFrame0Rx)
  /\ HasFrame(activities[2], RF_statInitFrame0Rx)
  /\ HasFrame(activities[3], RF_closeInitFrame0Rx)
  /\ activities[1].fd >= 0
  /\ activities[2].fd = activities[1].fd /\ activities[3].fd = activities[1].fd
  /\ runs # <<>>
  /\ ~runs[1].threw
  /\ runs[1].groups = <<>>
  /\ runs[1].operations = <<>>

\* C10: in every operation timeAlive is destroyed minus created, created the
\* first init stamp of an open of the group and destroyed the first destroy
\* stamp of a close of the group
C10_TimeAlive ==
  ( proc.pc = "idle" /\ proc.calls > 0 /\ runs # <<>> ) =>
    LET r == runs[Len(runs)]
    IN \A i \in 1..Len(r.operations) :
         LET lifeCycle == r.operations[i].val.lifeCycle
             group == Range(MapGet(r.groups, r.operations[i].key))
         IN /\ lifeCycle.timeAlive = lifeCycle.destroyed - lifeCycle.created
            /\ \E o \in group \cap Range(proc.openIds) :
                 lifeCycle.created = FirstStamp(Get(activities, o).init)
            /\ \E c \in group \cap Range(proc.closeIds) :
                 lifeCycle.destroyed = FirstStamp(Get(activities, c).destroy)

\* an operation of each kind whose open and close both carry their stamps
C10_AliveForSomeTime ==
  /\ proc.pc = "idle"
  /\ proc.calls > 0
  /\ runs # <<>>
  /\ ~runs[Len(runs)].threw
  /\ \E i \in 1..Len(runs[Len(runs)].operations) :
       LET lifeCycle == runs[Len(runs)].operations[i].val.lifeCycle
       IN lifeCycle.created > 0 /\ lifeCycle.destroyed > lifeCycle.created
          /\ lifeCycle.timeAlive > 0

\* the candidates of a call that are in the store
InStore == SelectSeq(util.ids, LAMBDA id : Has(util.acts, id))

\* C11: immediatelyBeforeId throws exactly when the reference id is not in
\* the store; otherwise it answers as if the candidates absent from the store
\* had not been passed, and with null when none is left.  oldestId never
\* throws, ignores the absent ids the same way and answers null when no id is
\* in the store.
C11_ErrorOnlyForAbsentReference ==
  /\ util.op = "immediatelyBeforeId" =>
       /\ util.threw <=> ~Has(util.acts, util.ref)
       /\ ~util.threw =>
            /\ util.result \in Range(InStore) \cup { NoId }
            /\ util.result = immediatelyBeforeId(util.acts, InStore, util.ref)
            /\ InStore = <<>> => util.result = NoId
  /\ util.op = "oldestId" =>
       /\ ~util.threw
       /\ util.result \in Range(InStore) \cup { NoId }
       /\ util.result = oldestId(util.acts, InStore)
       /\ util.result = NoId <=> InStore = <<>>

\* a call with a reference that is not in the store, and candidates that are
C11_AbsentReferenceThrows ==
  /\ util.op = "immediatelyBeforeId"
  /\ ~Has(util.acts, util.ref)
  /\ InStore # <<>>
  /\ util.threw

\* C12: when process() returns, operations and groups have the same keys:
\* one operation per group, under the group's key
C12_OperationPerGroup ==
  \A i \in 1..Len(runs) :
     ~runs[i].threw => MapKeys(runs[i].operations) = MapKeys(runs[i].groups)

\* a call of each kind that returned several groups
C12_SeveralGroups ==
  /\ runs # <<>>
  /\ ~runs[1].threw
  /\ Len(runs[1].groups) > 1
  /\ Len(runs[1].operations) > 1

\* what processActivities handed back: nothing when it threw
Output == IF orch.pc = "returned" THEN orch.allOperations ELSE <<>>

\* the entries of the output that kind k produced, as [key, val] pairs
OutputOf(k) ==
  LET es == SelectSeq(Output, LAMBDA e : e.name = operation(k))
  IN [ i \in 1..Len(es) |-> [ key |-> es[i].rootId, val |-> es[i].operation ] ]

\* C13: the entries of the orchestrator's output that come from a kind are
\* the operations that kind's processor returns when it runs alone on the
\* store, whatever the other kinds find
C13_KindsDoNotInterfere ==
  orch.pc \in { "returned", "threw" } =>
    \A k \in Kinds :
       LET alone == processCall(k, activities, config.includeActivities)
       IN ~alone.threw => OutputOf(k) = alone.proc.operations

OperationsOf(k) ==
  LET i == CHOOSE n \in 1..Len(orch.processors) : orch.processors[n] = k
  IN runs[i].operations

SubRecords(info) ==
  { info.role[k][1] : k \in { r \in RoleNames : info.role[r] # <<>> } }
    \cup Range(info.many)

\* C16: without includeActivities no role sub-record has an activity; with
\* includeActivities every role sub-record carries the store's record for
\* its id
C16_ActivitiesOnRequest ==
  kind \in Kinds =>
    \A i \in 1..Len(runs) :
       \A o \in 1..Len(runs[i].operations) :
          \A rec \in SubRecords(runs[i].operations[o].val) :
             rec.activity = IF config.includeActivities
                            THEN << Get(activities, rec.id) >> ELSE <<>>

\* an operation with activities attached to its roles and to its reads or
\* writes
C16_ActivitiesAttached ==
  /\ kind \in Kinds
  /\ config.includeActivities
  /\ runs # <<>>
  /\ runs[1].operations # <<>>
  /\ runs[1].operations[1].val.role["open"] # <<>>
  /\ runs[1].operations[1].val.role["open"][1].activity # <<>>
  /\ runs[1].operations[1].val.many # <<>>

\* C17: with separateFunctions no role keeps a userFunctions field and the
\* top-level list holds every role's descriptors; without it the roles keep
\* their userFunctions, whose entries carry a propertyPath, there is no
\* top-level list and mergeFunctions changes nothing; the descriptors are
\* merged (propertyPaths instead of propertyPath) only with both flags
C17_SeparateAndMergeFlags ==
  uf.stage = "summary" =>
    LET info == uf.result
        roles == RoleDescriptors(uf.info)
    IN IF uf.flags.separateFunctions
       THEN /\ \A k \in RoleNames :
                 info.role[k] # <<>> => info.role[k][1].userFunctions = <<>>
            /\ info.userFunctions # <<>>
            /\ \A d \in roles :
                 \E i \in 1..Len(info.userFunctions[1]) :
                    LET e == info.userFunctions[1][i]
                    IN IF uf.flags.mergeFunctions
                       THEN /\ e.location = d.location
                            /\ e.propertyPaths # <<>>
                            /\ d.propertyPath \in Range(e.propertyPaths[1])
                       ELSE e = d
            /\ \A i \in 1..Len(info.userFunctions[1]) :
                 LET e == info.userFunctions[1][i]
                 IN IF uf.flags.mergeFunctions
                    THEN e.propertyPaths # <<>> /\ e.propertyPath = <<>>
                    ELSE e.propertyPaths = <<>>
       ELSE /\ info = uf.info
            /\ info.role = uf.op.role
            /\ info.userFunctions = <<>>
            /\ \A d \in roles : d.propertyPath # <<>> /\ d.propertyPaths = <<>>

\* a summary with both flags in which the open and the close carry the same
\* function: one entry with two property paths
C17_MergedSummary ==
  /\ uf.stage = "summary"
  /\ uf.flags.separateFunctions /\ uf.flags.mergeFunctions
  /\ Cardinality(RoleDescriptors(uf.info)) = 2
  /\ \E i \in 1..Len(uf.result.userFunctions[1]) :
       /\ uf.result.userFunctions[1][i].propertyPaths # <<>>
       /\ Len(uf.result.userFunctions[1][i].propertyPaths[1]) = 2

\* the ids reachable from the ids S along trigger edges, parent to child
RECURSIVE TriggeredClosure(_, _)
TriggeredClosure(acts, S) ==
  LET T == S \cup { acts[i].id : i \in { j \in 1..Len(acts) : acts[j].triggerId \in S } }
  IN IF T = S THEN S ELSE TriggeredClosure(acts, T)

\* every trigger precedes the activities it triggers
TriggerOrdered(acts) ==
  \A i, j \in 1..Len(acts) : acts[j].id = acts[i].triggerId => j < i

\* position of the first activity of which stop is true, 0 without one
FirstStop(acts, stop) ==
  LET at == { i \in 1..Len(acts) : acts[i].id \in stop }
  IN IF at = {} THEN 0 ELSE CHOOSE i \in at : \A j \in at : i <= j

\* C19: on a store in which every trigger precedes what it triggers,
\* idsTriggeredBy(activities, root, stop) returns exactly the root and the
\* transitive descendants of the root found up to the first activity of
\* which stop is true, and that activity is a member of the result.
C19_DescendantsUpToStop ==
  (util.op = "idsTriggeredBy" /\ util.pc = "returned" /\ TriggerOrdered(util.acts)) =>
    LET acts == util.acts
        first == FirstStop(acts, util.stop)
        last == IF first = 0 THEN Len(acts) ELSE first
        descendants == TriggeredClosure(acts, { util.id })
    IN /\ util.ids = idsTriggeredBy(acts, util.id, util.stop)
       /\ Range(util.ids) =
            { util.id } \cup { acts[i].id : i \in { j \in 1..last : acts[j].id \in descendants } }
       /\ first # 0 => acts[first].id \in Range(util.ids)

\* C19 without its last clause: the walk returns the root and its descendants
\* found up to the first activity of which stop is true
C19_DescendantsFound ==
  (util.op = "idsTriggeredBy" /\ util.pc = "returned" /\ TriggerOrdered(util.acts)) =>
    LET acts == util.acts
        first == FirstStop(acts, util.stop)
        last == IF first = 0 THEN Len(acts) ELSE first
        descendants == TriggeredClosure(acts, { util.id })
    IN Range(util.ids) =
         { util.id } \cup { acts[i].id : i \in { j \in 1..last : acts[j].id \in descendants } }

\* C20: every group that the write-file and the read-stream processor's
\* _separateIntoGroups leaves ends, in walk order, with an activity found as
\* the kind's close and has more members than the minimum (the open alone is
\* taken as the minimum); an open whose walk does not end at a close has no
\* group.
C20_GroupsEndWithClose ==
  (kind \in { "writeFile", "readStream" } /\ proc.calls > 0) =>
    \A g \in 1..Len(proc.groups) :
       LET ids == proc.groups[g].val
       IN /\ Len(ids) > 1
          /\ Contains(proc.closeIds, ids[Len(ids)])

\* a round of the loop of idsTriggeredBy moves on to the next activity of the
\* store or leaves the loop
WalkVisitsOnce ==
  (util.op = "idsTriggeredBy" /\ util' # util) =>
     /\ util.pc = "loop"
     /\ \/ util'.pc = "returned" /\ util'.i = util.i
        \/ util'.pc = "loop" /\ util'.i = util.i + 1

\* a round of the loop of the write stream's _separateIntoGroups takes the
\* next close and adds nothing to the remaining opens and writes
ResolverShrinks ==
  (proc.pc = "separate" /\ proc'.pc = "separate" /\ proc' # proc) =>
     /\ proc.closeQueue # <<>>
     /\ proc'.closeQueue = Tail(proc.closeQueue)
     /\ ~Contains(proc'.closeQueue, Head(proc.closeQueue))
     /\ Range(proc'.remainingOpenIds) \subseteq Range(proc.remainingOpenIds)
     /\ Range(proc'.remainingWriteIds) \subseteq Range(proc.remainingWriteIds)

\* C18: process() of every kind and processActivities terminate on every
\* store: a call that has started returns or throws; the walk of
\* idsTriggeredBy visits each activity at most once, and the write stream's
\* _separateIntoGroups handles each close once and never adds to the remaining
\* opens and writes.
C18_Terminates ==
  /\ InSeparate ~> (proc.pc = "idle" /\ Len(runs) > 0)
  /\ InProcessActivities ~> (kind = "all" /\ orch.pc \in { "returned", "threw" })
  /\ InWalk ~> (util.op = "idsTriggeredBy" /\ util.pc = "returned")
  /\ [][WalkVisitsOnce]_vars
  /\ [][ResolverShrinks]_vars

\* a write stream's process() has taken two closes in turn and has returned
C18_TwoClosesHandled ==
  /\ kind = "writeStream"
  /\ proc.pc = "idle"
  /\ Len(proc.closeIds) >= 2
  /\ proc.closeQueue = <<>>
  /\ runs # <<>>

\* the groups that a round of the write stream's loop has set
Finalized == { i \in 1..Len(proc'.groups) : proc'.groups[i] \notin Range(proc.groups) }

\* a round of the write stream's loop that sets a group
Finalizes == proc.pc = "separate" /\ proc'.pc = "separate" /\ Finalized # {}

\* C21: in the write stream's _separateIntoGroups, the open and the writes of
\* a group that was set for one close are never members of a group set for a
\* later close of the same run.
C21_ConsumedNeverReused ==
  [][Finalizes =>
       \A i \in Finalized : \A g \in 1..Len(proc.groups) :
          LET later == Range(proc'.groups[i].val)
              earlier == proc.groups[g]
          IN /\ earlier.key \notin later
             /\ \A w \in Range(earlier.val) :
                  Contains(proc.writeIds, w) => w \notin later]_vars

\* two write streams have been pieced together in one run
C21_TwoGroupsFinalized ==
  /\ kind = "writeStream"
  /\ proc.pc = "separate"
  /\ Len(proc.groups) >= 2

\* the close that the next round of the write stream's loop takes is one that
\* the loop ignores: none of the remaining writes is its sibling, or none of
\* the remaining opens is a sibling of the oldest of these writes
Ignored ==
  LET closeId == Head(proc.closeQueue)
      writeSiblings == allSiblings(activities, closeId, proc.remainingWriteIds)
  IN \/ writeSiblings = <<>>
     \/ allSiblings(activities, oldestId(activities, writeSiblings),
                    proc.remainingOpenIds) = <<>>

\* C22: in the write stream's _separateIntoGroups, a close with no remaining
\* write among its siblings, or whose oldest write has no remaining open among
\* its siblings, is skipped: the groups and the remaining opens and writes stay
\* as they were, and the loop goes on with the closes after it.
C22_IgnoredCloseChangesNothing ==
  [][(proc.pc = "separate" /\ proc.closeQueue # <<>> /\ proc' # proc /\ Ignored) =>
       /\ proc'.groups = proc.groups
       /\ proc'.remainingOpenIds = proc.remainingOpenIds
       /\ proc'.remainingWriteIds = proc.remainingWriteIds
       /\ proc'.pc = "separate"
       /\ proc'.closeQueue = Tail(proc.closeQueue)]_vars

\* the first of two closes was ignored and the second one has its group
C22_LaterCloseProcessed ==
  /\ kind = "writeStream"
  /\ proc.pc = "separate"
  /\ Len(proc.closeIds) = 2
  /\ proc.closeQueue = <<>>
  /\ Len(proc.groups) = 1
  /\ Contains(proc.groups[1].val, proc.closeIds[2])
  /\ proc.remainingOpenIds # <<>>

\* C23: a group that the write stream's _separateIntoGroups sets for a close
\* holds exactly the remaining writes that are siblings of the close, the
\* chosen open, the chosen tick and the close; it is stored under the id of
\* the chosen open, and iterating it yields the writes first, then the open,
\* the tick and the close.
C23_GroupMembersInOrder ==
  [][Finalizes =>
       LET closeId == Head(proc.closeQueue)
           writeSiblings == allSiblings(activities, closeId, proc.remainingWriteIds)
           tick == closestSibling(activities, closeId, proc.tickIds)
       IN \A i \in Finalized :
             LET group == proc'.groups[i]
             IN /\ Contains(proc.remainingOpenIds, group.key)
                /\ Contains(proc.tickIds, tick)
                /\ writeSiblings # <<>>
                /\ Range(writeSiblings) \subseteq Range(proc.writeIds)
                /\ group.val = writeSiblings \o << group.key, tick, closeId >>]_vars

\* the ids handed to the utility that have an activity in the store
InStoreIds == { id \in Range(util.ids) : Has(util.acts, id) }

\* C24: oldestId(activities, ids) returns an id of ids that is in the store
\* and whose init is less than or equal to the init of every other id of ids
\* in the store, whatever the timestamps are (also when they differ in the
\* number of their digits).
C24_OldestHasSmallestInit ==
  ( /\ util.op = "oldestId"
    /\ InStoreIds # {}
    /\ \A id \in InStoreIds : Get(util.acts, id).init # NoStamp )
  => /\ util.result \in InStoreIds
     /\ \A id \in InStoreIds :
          Get(util.acts, util.result).init <= Get(util.acts, id).init

\* C24 for timestamps of one length: the comparison of the arrays as strings
\* then agrees with the comparison of the numbers
C24_OldestAmongEqualLengths ==
  ( /\ util.op = "oldestId"
    /\ InStoreIds # {}
    /\ \A id \in InStoreIds : Get(util.acts, id).init # NoStamp
    /\ \A a, b \in InStoreIds :
         Len(Digits(Get(util.acts, a).init)) = Len(Digits(Get(util.acts, b).init)) )
  => /\ util.result \in InStoreIds
     /\ \A id \in InStoreIds :
          Get(util.acts, util.result).init <= Get(util.acts, id).init

\* the ids of the activities that an operation reports as its writes
ReportedWrites(info) ==
  { info.role["write"][j].id : j \in 1..Len(info.role["write"]) }
    \cup { info.many[j].id : j \in 1..Len(info.many) }

\* C25: when a writeFile chain has several writes between its open and its
\* close, the group holds all of them and the operation reports every one of
\* them, not only one.
C25_EveryWriteReported ==
  kind = "writeFile" =>
    \A i \in 1..Len(runs) : ~runs[i].threw =>
       \A o \in 1..Len(runs[i].operations) :
          LET group == Range(MapGet(runs[i].groups, runs[i].operations[o].key))
              chain == TriggeredClosure(activities, { runs[i].operations[o].key })
              writes == { a \in Range(activities) :
                            a.id \in chain /\ WriteFile_isWrite(a) }
          IN /\ { a.id : a \in writes } \subseteq group
             /\ { a.id : a \in writes } \subseteq ReportedWrites(runs[i].operations[o].val)

\* open, stat, two or more reads and close of one readFile: matching stacks,
\* each triggered by the one before, initialised in that order, on one file
\* descriptor
IsLongReadFileChain(c) ==
  /\ Len(c) > RF_operationSteps
  /\ HasFrame(c[1], RF_openInitFrame0Rx)
  /\ HasFrame(c[2], RF_statInitFrame0Rx)
  /\ \A i \in 3..(Len(c) - 1) : HasFrame(c[i], RF_readInitFrame1Rx)
  /\ HasFrame(c[Len(c)], RF_closeInitFrame0Rx)
  /\ \A i \in 1..(Len(c) - 1) : c[i + 1].triggerId = c[i].id /\ c[i].init < c[i + 1].init
  /\ \A i \in 1..Len(c) : c[i].init # NoStamp /\ c[i].fd = c[1].fd
  /\ c[1].fd >= 0

\* C26: ReadFileProcessor takes its four steps as a minimum: a readFile whose
\* activities on one file descriptor are an open, a stat, two or more reads
\* and a close yields one group and one operation.
C26_MoreReadsStillOneGroup ==
  ( kind = "readFile" /\ IsLongReadFileChain(activities) /\ runs # <<>> )
  => /\ ~runs[1].threw
     /\ Len(runs[1].groups) = 1
     /\ Len(runs[1].operations) = 1

\* the name a descriptor is shown under: the first part of its location
DisplayName(d) == d.location[1]

\* C27: the display name of a callback descriptor is its declared name when
\* that is not empty, otherwise its inferred name when that is not empty,
\* otherwise the unknown marker.
C27_NameFallsBack ==
  uf.stage = "assembled" =>
    \A d \in RoleDescriptors(uf.info) :
       DisplayName(d) = IF ~IsBlank(d.name) THEN d.name
                        ELSE IF ~IsBlank(d.inferredName) THEN d.inferredName
                        ELSE "<Unknown>"

\* C28: in every group of the write file and of the read stream processor at
\* most one member is found as the kind's close, and it is the last member in
\* the order of the walk: no id that the walk meets after a close is part of
\* the group.
C28_CloseIsLast ==
  (kind \in { "writeFile", "readStream" } /\ proc.calls > 0) =>
    \A g \in 1..Len(proc.groups) :
       LET ids == proc.groups[g].val
           closes == { i \in 1..Len(ids) : Contains(proc.closeIds, ids[i]) }
       IN /\ Cardinality(closes) <= 1
          /\ closes \subseteq { Len(ids) }

\* an operation started inside another one: the store holds a second close
\* after the one that ended the walk, and the group ends at the first
C28_WalkEndedAtFirstClose ==
  /\ kind \in { "writeFile", "readStream" }
  /\ proc.calls > 0
  /\ Len(proc.closeIds) >= 2
  /\ \E g \in 1..Len(proc.groups) :
       LET ids == proc.groups[g].val
       IN /\ Len(ids) >= 5
          /\ Contains(proc.closeIds, ids[Len(ids)])
          /\ \E c \in Range(proc.closeIds) :
               /\ c \notin Range(ids)
               /\ c \in TriggeredClosure(activities, { proc.groups[g].key })

\* C29: every group of the write stream processor is stored under the id of a
\* store activity found as a write stream open, and every member of the group
\* is the id of an activity of the store: the 'none' that immediatelyBeforeId
\* or closestSibling return when they find nothing is never a key or a member.
C29_NoneIsNeverAMember ==
  kind = "writeStream" =>
    \A g \in 1..Len(proc.groups) :
       /\ Has(activities, proc.groups[g].key)
       /\ Contains(proc.openIds, proc.groups[g].key)
       /\ \A id \in Range(proc.groups[g].val) : Has(activities, id)

\* C30: every entry of an operation's top-level userFunctions list is the
\* descriptor of a user function found on one of the group's roles and has a
\* location; when no role's activity carries resource.functions, the list is
\* empty.
C30_OnlyFunctionsOfTheRoles ==
  uf.stage = "separated" =>
    /\ uf.result.userFunctions # <<>>
    /\ \A i \in 1..Len(uf.result.userFunctions[1]) :
         LET e == uf.result.userFunctions[1][i]
         IN /\ e.location # << Undefined >>
            /\ \E d \in RoleDescriptors(uf.info) : e = d
    /\ RoleDescriptors(uf.info) = {} => uf.result.userFunctions[1] = <<>>

====
